---- MODULE Spec2Model ----
(***************************************************************************)
(* NanoTekSpice: a discrete-time simulator of digital logic circuits.      *)
(* The model covers the circuit builder, Circuit::simulate / set_value /   *)
(* get_input / get_output, the PinContainer and input-pin evaluation with  *)
(* per-tick memoization, the single-pin components and the parallel-gate   *)
(* ICs with their internal gates and the internal-component proxy.         *)
(***************************************************************************)
EXTENDS Integers, Sequences, FiniteSets, TLC

VARIABLES input, phase, types, links, circuit, shadow, lastResult

vars == <<input, phase, types, links, circuit, shadow, lastResult>>

(***************************************************************************)
(* Bounds of the model.                                                    *)
(***************************************************************************)
MaxTick == 3
FuelBits == 11
MaxPermuted == 3

(***************************************************************************)
(* Tristate (components/tristate.rs)                                       *)
(***************************************************************************)
StateFalse == "State(false)"
StateTrue == "State(true)"
Undefined == "Undefined"
Tristate == {StateFalse, StateTrue, Undefined}

FromBool(b) == IF b THEN StateTrue ELSE StateFalse

TristateDefault == Undefined

ParseError == "UnknownValue"

(* A from_str that takes the lower-case letter as well. *)
FromStrAnyCase(s) ==
    CASE s = "0" -> StateFalse
      [] s = "1" -> StateTrue
      [] s \in {"U", "u"} -> Undefined
      [] OTHER -> ParseError

FromStr(s) ==
    CASE s = "0" -> StateFalse
      [] s = "1" -> StateTrue
      [] s = "U" -> Undefined
      [] OTHER -> ParseError

Display(v) ==
    CASE v = StateFalse -> "0"
      [] v = StateTrue -> "1"
      [] OTHER -> "U"

(* OR in which an Undefined accumulator stays Undefined *)
BitOrLeftUndefinedWins(l, r) ==
    IF l = Undefined THEN Undefined
    ELSE IF StateTrue \in {l, r} THEN StateTrue
    ELSE IF r = Undefined THEN Undefined ELSE StateFalse

(* An OR in which an undefined operand always gives Undefined. *)
BitOrUndefinedWins(l, r) ==
    IF l = Undefined \/ r = Undefined THEN Undefined
    ELSE FromBool(l = StateTrue \/ r = StateTrue)

BitOr(l, r) ==
    CASE l # Undefined /\ r # Undefined ->
             FromBool(l = StateTrue \/ r = StateTrue)
      [] l = StateTrue \/ r = StateTrue -> StateTrue
      [] OTHER -> Undefined

(* An AND in which an undefined operand always gives Undefined. *)
BitAndUndefinedWins(l, r) ==
    IF l = Undefined \/ r = Undefined THEN Undefined
    ELSE FromBool(l = StateTrue /\ r = StateTrue)

BitAnd(l, r) ==
    CASE l # Undefined /\ r # Undefined ->
             FromBool(l = StateTrue /\ r = StateTrue)
      [] l = StateFalse \/ r = StateFalse -> StateFalse
      [] OTHER -> Undefined

(* A XOR that takes an undefined operand for false. *)
BitXorUndefinedAsFalse(l, r) == FromBool((l = StateTrue) # (r = StateTrue))

BitXor(l, r) ==
    CASE l # Undefined /\ r # Undefined -> FromBool(l # r)
      [] OTHER -> Undefined

Not(v) ==
    IF v # Undefined THEN FromBool(v = StateFalse) ELSE Undefined

(***************************************************************************)
(* The component catalog (components/types.rs, components/factory.rs).     *)
(***************************************************************************)
ComponentType ==
    {"input", "output", "clock", "true", "false",
     "4001", "4011", "4030", "4069", "4071", "4081"}

(* from_str taking an unknown type string for an input *)
TypeFromStrAnyAccepted(s) == IF s \in ComponentType THEN s ELSE "input"

(* impl FromStr for ComponentType *)
TypeFromStr(s) == IF s \in ComponentType THEN s ELSE "InvalidValue"

TwoInputsTypes == {"4001", "4011", "4030", "4071", "4081"}
OneInputTypes == {"4069"}
CompositeTypes == TwoInputsTypes \cup OneInputTypes
ConstTypes == {"true", "false"}

(* the gates of the 4081 taken for NAND gates *)
GateOfNandFor4081(type) ==
    CASE type = "4001" -> "GateNOR"
      [] type = "4011" -> "GateNAND"
      [] type = "4030" -> "GateXOR"
      [] type = "4069" -> "GateNOT"
      [] type = "4071" -> "GateOR"
      [] type = "4081" -> "GateNAND"

(* The gate primitive a composite is made of. *)
GateOf(type) ==
    CASE type = "4001" -> "GateNOR"
      [] type = "4011" -> "GateNAND"
      [] type = "4030" -> "GateXOR"
      [] type = "4069" -> "GateNOT"
      [] type = "4071" -> "GateOR"
      [] type = "4081" -> "GateAND"

(* The operations with the negation of NOR left out. *)
OperationNorNotNegated(gate, left, right) ==
    CASE gate = "GateAND" -> BitAnd(left, right)
      [] gate = "GateOR" -> BitOr(left, right)
      [] gate = "GateXOR" -> BitXor(left, right)
      [] gate = "GateNAND" -> Not(BitAnd(left, right))
      [] gate = "GateNOR" -> BitOr(left, right)

(* The closures given to gate_two_inputs_impl!. *)
OPERATION(gate, left, right) ==
    CASE gate = "GateAND" -> BitAnd(left, right)
      [] gate = "GateOR" -> BitOr(left, right)
      [] gate = "GateXOR" -> BitXor(left, right)
      [] gate = "GateNAND" -> Not(BitAnd(left, right))
      [] gate = "GateNOR" -> Not(BitOr(left, right))

(* (input, output) pins of the six gates of a one-input IC and            *)
(* (left, right, output) pins of the four gates of a two-input IC.        *)
PER_GATES_ONE == <<<<1, 2>>, <<3, 4>>, <<5, 6>>, <<9, 8>>, <<11, 10>>, <<13, 12>>>>
PER_GATES_TWO == <<<<1, 2, 3>>, <<5, 6, 4>>, <<8, 9, 10>>, <<12, 13, 11>>>>

PerGates(type) == IF type \in OneInputTypes THEN PER_GATES_ONE ELSE PER_GATES_TWO

(***************************************************************************)
(* Addressing.  A component is <<name, idx>>: idx TOP is the component     *)
(* registered under the name, 1..6 are the gates a composite owns, PROXY   *)
(* is the composite's InternalComponentProxy.  A pin is <<name, idx, pin>>;*)
(* idx AUTO addresses the input pin of the OutputFromInternalComponents    *)
(* that drives output pin `pin` of the composite.  A PinLink is the        *)
(* <<name, idx, pin>> of its peer.                                         *)
(***************************************************************************)
TOP == 0
PROXY == 7
AUTO == 8

(* Kind of the component <<name, idx>> given the catalog type of `name`. *)
KindOf(type, idx) ==
    CASE idx = TOP -> type
      [] idx = PROXY -> "proxy"
      [] OTHER -> GateOf(type)

GateKinds == {"GateNOT", "GateAND", "GateOR", "GateXOR", "GateNAND", "GateNOR"}

(* nb_pins handed to PinContainer::new. *)
NbPins(kind) ==
    CASE kind \in {"input", "output", "clock"} -> 1
      [] kind \in CompositeTypes -> 14
      [] kind = "GateNOT" -> 2
      [] kind \in GateKinds -> 3
      [] OTHER -> 0

(* build_pins_spec of every component: the UnidirectionalInput pins ...  *)
InputPins(kind) ==
    CASE kind = "output" -> {1}
      [] kind \in TwoInputsTypes ->
             UNION {{PER_GATES_TWO[g][1], PER_GATES_TWO[g][2]} : g \in 1..4}
      [] kind \in OneInputTypes -> {PER_GATES_ONE[g][1] : g \in 1..6}
      [] kind = "GateNOT" -> {1}
      [] kind \in GateKinds -> {1, 2}
      [] OTHER -> {}

(* ... and the UnidirectionalOutput pins, which own an output cell. *)
OutputPins(kind) ==
    CASE kind \in {"input", "clock"} -> {1}
      [] kind \in TwoInputsTypes -> {PER_GATES_TWO[g][3] : g \in 1..4}
      [] kind \in OneInputTypes -> {PER_GATES_ONE[g][2] : g \in 1..6}
      [] kind = "GateNOT" -> {2}
      [] kind \in GateKinds -> {3}
      [] OTHER -> {}

GateOutput(kind) == IF kind = "GateNOT" THEN 2 ELSE 3

(* Indexes of the gates owned by a component of the given type. *)
GateIdx(type) ==
    CASE type \in TwoInputsTypes -> 1..4
      [] type \in OneInputTypes -> 1..6
      [] OTHER -> {}

(* The containers a component of the given type brings with it. *)
NodesOf(name, type) ==
    IF type \in ConstTypes THEN {}
    ELSE {<<name, TOP>>} \cup {<<name, g>> : g \in GateIdx(type)}

(* Every UnidirectionalInputPin a component of the given type brings. *)
InputPinsOf(name, type) ==
    {<<name, TOP, p>> : p \in InputPins(type)}
    \cup UNION {{<<name, g, p>> : p \in InputPins(GateOf(type))} : g \in GateIdx(type)}
    \cup (IF type \in CompositeTypes
          THEN {<<name, AUTO, p>> : p \in OutputPins(type)} ELSE {})

(* Every output cell a component of the given type brings. *)
CellsOf(name, type) ==
    {<<name, TOP, p>> : p \in OutputPins(type)}
    \cup UNION {{<<name, g, p>> : p \in OutputPins(GateOf(type))} : g \in GateIdx(type)}

(* The links installed by link_internal_component in the constructor of a *)
(* composite: each gate input pin points at the proxy, each evaluator of  *)
(* an external output pin points at the output pin of its gate.           *)
InternalLinks(name, type) ==
    LET per == PerGates(type)
        gate == GateOf(type)
        out == GateOutput(gate)
    IN  [p \in InputPinsOf(name, type) |->
            CASE p[2] = TOP -> {}
              [] p[2] = AUTO ->
                   {<<name, g, out>> : g \in {h \in GateIdx(type) : per[h][out] = p[3]}}
              [] OTHER -> {<<name, PROXY, per[p[2]][p[3]]>>}]

(***************************************************************************)
(* Iteration order of the hash maps and hash sets.  `order` is fixed when  *)
(* the circuit is built: comps is the order of Circuit::components, and    *)
(* the three flags give the direction in which all_pins, output_values and *)
(* the link sets are walked.                                               *)
(***************************************************************************)
RECURSIVE SortAsc(_)
SortAsc(S) ==
    IF S = {} THEN <<>>
    ELSE LET lo == CHOOSE x \in S : \A y \in S : x <= y
         IN  <<lo>> \o SortAsc(S \ {lo})

Reverse(s) == [i \in 1..Len(s) |-> s[Len(s) + 1 - i]]

Iter(S, desc) == IF desc THEN Reverse(SortAsc(S)) ELSE SortAsc(S)

Rank(comps, name) == CHOOSE i \in 1..Len(comps) : comps[i] = name

LinkKey(comps, l) == Rank(comps, l[1]) * 256 + l[2] * 16 + l[3]

IterLinks(L, order) ==
    LET keys == Iter({LinkKey(order.comps, l) : l \in L}, order.linksDesc)
    IN  [i \in 1..Len(keys) |-> CHOOSE l \in L : LinkKey(order.comps, l) = keys[i]]

(***************************************************************************)
(* PinState / PinContainerState                                            *)
(***************************************************************************)
NeverComputed == <<"NeverComputed", 0>>
Available(tick) == <<"Available", tick>>
Computing(tick) == <<"Computing", tick>>

InvalidPin == "InvalidPin"
NotAnInput == "NotAnInput"
None == "None"

(* OutputComputationMethod of pin `pin` in the output_values of the       *)
(* container of a component of kind `kind`, after construction.           *)
OutputComputationMethod(kind, pin) ==
    CASE pin \notin OutputPins(kind) -> None
      [] kind \in CompositeTypes -> "Automatic"
      [] OTHER -> "Manual"

(***************************************************************************)
(* The evaluation engine.  The circuit record `m` carries the call stack   *)
(* of the evaluation in m.stack (innermost call first) and the value the   *)
(* last finished call returned in m.ret.  Each operator below is one       *)
(* function of the source: it takes the circuit, its own frame `f` and the *)
(* frames of its callers `rest`, and gives the circuit after it has run up *)
(* to its next call or to its return.                                      *)
(***************************************************************************)

(* return from the running call, with or without a value *)
Return(m, rest) == [m EXCEPT !.stack = rest]
ReturnValue(m, rest, v) == [m EXCEPT !.stack = rest, !.ret = v]

(* call `frames` one after the other, then go on with `rest` *)
Call(m, frames, rest) == [m EXCEPT !.stack = frames \o rest]

(* A panic aborts the process: nothing of the evaluation runs after it. *)
Panic(m, msg) == [m EXCEPT !.fatal = msg, !.stack = <<>>]

ComponentSimulateFrame(c, tick) ==
    [op |-> "Component::simulate", c |-> c, tick |-> tick]

ComponentComputeFrame(c, pin) ==
    [op |-> "Component::compute", c |-> c, pin |-> pin]

PinSimulateFrame(pin, tick) ==
    [op |-> "InputPin::simulate", pin |-> pin, tick |-> tick]

ComputeInputFrame(c, pin) ==
    [op |-> "PinContainer::compute_input", c |-> c, pin |-> pin]

OutputSimulateFrame(name, pin, tick) ==
    [op |-> "OutputFromInternalComponents::simulate", name |-> name, pin |-> pin,
     tick |-> tick, stage |-> 0]

(* PinContainer::simulate_all_inputs starts its walk over all_pins *)
SimulateAllInputsFrame(m, c, tick) ==
    [op |-> "simulate_all_inputs", c |-> c, tick |-> tick,
     ps |-> Iter(InputPins(KindOf(types[c[1]], c[2])), m.order.pinsDesc)]

(* the loop of PinContainer::simulate_all_inputs *)
SimulateAllInputs(m, f, rest) ==
    IF f.ps = <<>> THEN Return(m, rest)
    ELSE Call(m, <<PinSimulateFrame(<<f.c[1], f.c[2], Head(f.ps)>>, f.tick),
                   [f EXCEPT !.ps = Tail(@)]>>, rest)

(* recompute_input_cache starting from true *)
RecomputeInputCacheFrameTrue(m, pin, tick) ==
    [op |-> "recompute_input_cache", pin |-> pin, tick |-> tick,
     ls |-> IterLinks(links[pin], m.order),
     state |-> FromBool(TRUE), waiting |-> FALSE]

(* recompute_input_cache starting from the default Tristate instead of   *)
(* false                                                                   *)
RecomputeInputCacheFrameDefault(m, pin, tick) ==
    [op |-> "recompute_input_cache", pin |-> pin, tick |-> tick,
     ls |-> IterLinks(links[pin], m.order),
     state |-> TristateDefault, waiting |-> FALSE]

(* UnidirectionalInputPin::recompute_input_cache before its loop: the     *)
(* links in the order of the hash set, and `state` false.                 *)
RecomputeInputCacheFrame(m, pin, tick) ==
    [op |-> "recompute_input_cache", pin |-> pin, tick |-> tick,
     ls |-> IterLinks(links[pin], m.order),
     state |-> FromBool(FALSE), waiting |-> FALSE]

(* The match without the test of the tick: an Available pin is           *)
(* recomputed at every call.                                             *)
PinGuardNoMemo(st, tick) ==
    CASE st = NeverComputed -> "recompute"
      [] st[1] = "Available" -> "recompute"
      [] OTHER -> IF st[2] # tick THEN "panic" ELSE "return"

(* The match without its Computing arm: a pin under computation is      *)
(* recomputed like a stale one.                                          *)
PinGuardNoCycleBreak(st, tick) ==
    CASE st = NeverComputed -> "recompute"
      [] st[1] = "Available" -> IF st[2] # tick THEN "recompute" ELSE "return"
      [] OTHER -> "recompute"

(* The match of UnidirectionalInputPin::simulate on input_state. *)
PinGuard(st, tick) ==
    CASE st = NeverComputed -> "recompute"
      [] st[1] = "Available" -> IF st[2] # tick THEN "recompute" ELSE "return"
      [] OTHER -> IF st[2] # tick THEN "panic" ELSE "return"

(* UnidirectionalInputPin::simulate, up to the loop of                    *)
(* recompute_input_cache                                                   *)
PinSimulate(m, f, rest) ==
    LET g == PinGuard(m.input_state[f.pin], f.tick)
    IN  CASE g = "return" -> Return(m, rest)
          [] g = "panic" -> Panic(m, "Cyclic pin simulation with different tick")
          [] OTHER ->
               Call([m EXCEPT !.input_state[f.pin] = Computing(f.tick)],
                    <<RecomputeInputCacheFrame(m, f.pin, f.tick)>>, rest)

(* The loop of UnidirectionalInputPin::recompute_input_cache and the two  *)
(* stores after it.                                                        *)
RecomputeInputCache(m, f, rest) ==
    LET state == IF f.waiting THEN BitOr(f.state, m.ret) ELSE f.state
        ls == IF f.waiting THEN Tail(f.ls) ELSE f.ls
    IN  IF ls = <<>>
        THEN Return([m EXCEPT !.input_value[f.pin] = state,
                              !.input_state[f.pin] = Available(f.tick)], rest)
        ELSE Call(m, <<[op |-> "PinLink::compute", link |-> Head(ls),
                        tick |-> f.tick, stage |-> 0],
                       [f EXCEPT !.state = state, !.ls = ls, !.waiting = TRUE]>>,
                  rest)

(* PinLink::compute reading the peer's pin without simulating the peer    *)
(* first.                                                                  *)
LinkComputeNoSimulate(m, f, rest) ==
    LET c == <<f.link[1], f.link[2]>>
    IN  CASE f.stage = 0 /\ f.link[1] \notin DOMAIN types ->
               Panic(m, "Weak reference lost")
          [] f.stage = 0 ->
               Call([m EXCEPT !.calls = @ + 1],
                    <<ComponentComputeFrame(c, f.link[3]),
                      [f EXCEPT !.stage = 1]>>, rest)
          [] OTHER ->
               IF m.ret = InvalidPin
               THEN Panic(m, "Broken link to a pin of a component")
               ELSE Return(m, rest)

(* PinLink::compute *)
LinkCompute(m, f, rest) ==
    LET c == <<f.link[1], f.link[2]>>
    IN  CASE f.stage = 0 /\ f.link[1] \notin DOMAIN types ->
               Panic(m, "Weak reference lost")
          [] f.stage = 0 ->
               Call([m EXCEPT !.calls = @ + 1],
                    <<ComponentSimulateFrame(c, f.tick),
                      ComponentComputeFrame(c, f.link[3]),
                      [f EXCEPT !.stage = 1]>>, rest)
          [] OTHER ->
               IF m.ret = InvalidPin
               THEN Panic(m, "Broken link to a pin of a component")
               ELSE Return(m, rest)

(* compute_input returning LOW for a pin under computation *)
PinComputeInputLowWhenComputing(m, pin) ==
    IF m.input_state[pin][1] = "Computing" THEN FromBool(FALSE)
    ELSE m.input_value[pin]

(* compute_input giving Undefined for a pin whose aggregate is still      *)
(* being computed, in place of the aggregate of the previous evaluation.  *)
PinComputeInputUndefinedWhenComputing(m, pin) ==
    IF m.input_state[pin][1] = "Computing" THEN Undefined
    ELSE m.input_value[pin]

(* UnidirectionalInputPin::compute_input *)
PinComputeInput(m, pin) == m.input_value[pin]

(* A read of the aggregate of a pin that is still Computing is kept in    *)
(* m.reentered with the value it obtained.                                *)
ReadInput(m, pin) ==
    IF m.input_state[pin][1] = "Computing"
    THEN [m EXCEPT !.reentered = @ \cup {<<pin, PinComputeInput(m, pin)>>}]
    ELSE m

(* OutputFromInternalComponents::simulate of output pin f.pin of the      *)
(* composite f.name                                                        *)
OutputFromInternalSimulate(m, f, rest) ==
    LET p == <<f.name, AUTO, f.pin>>
    IN  IF f.stage = 0
        THEN Call(m, <<PinSimulateFrame(p, f.tick), [f EXCEPT !.stage = 1]>>, rest)
        ELSE Return([ReadInput(m, p) EXCEPT
                         !.cell[<<f.name, TOP, f.pin>>] = PinComputeInput(m, p)],
                    rest)

(* The walk over output_values in PinContainer::simulate: an Automatic    *)
(* driver is simulated, a Manual cell is collected for simulate_fn.       *)
OutputValues(m, f, rest) ==
    IF f.ps = <<>> THEN Return(m, rest)
    ELSE IF OutputComputationMethod(KindOf(types[f.c[1]], f.c[2]), Head(f.ps))
              = "Automatic"
    THEN Call(m, <<OutputSimulateFrame(f.c[1], Head(f.ps), f.tick),
                   [f EXCEPT !.ps = Tail(@)]>>, rest)
    ELSE Call(m, <<[f EXCEPT !.ps = Tail(@)]>>, rest)

(* The tests without the one on Available: a container already simulated *)
(* at this tick runs again.                                              *)
ContainerGuardNoMemo(st, tick) ==
    CASE st[1] = "Computing" -> IF st[2] = tick THEN "return" ELSE "panic"
      [] OTHER -> "run"

(* The two tests on self.state at the head of PinContainer::simulate. *)
ContainerGuard(st, tick) ==
    CASE st[1] = "Available" -> IF st[2] = tick THEN "return" ELSE "run"
      [] st[1] = "Computing" -> IF st[2] = tick THEN "return" ELSE "panic"
      [] OTHER -> "run"

(* PinContainer::simulate: past the guard the container is Computing,     *)
(* then come simulate_all_inputs, the walk over output_values, the        *)
(* closure of the component and the store of Available.  runs counts the  *)
(* executions of this body during the running call of the circuit.        *)
ContainerSimulate(m, f, rest) ==
    LET g == ContainerGuard(m.state[f.c], f.tick)
        kind == KindOf(types[f.c[1]], f.c[2])
    IN  CASE g = "return" -> Return(m, rest)
          [] g = "panic" -> Panic(m, "Cyclic pin simulation with different tick")
          [] OTHER ->
               Call([m EXCEPT !.state[f.c] = Computing(f.tick), !.runs[f.c] = @ + 1],
                    <<SimulateAllInputsFrame(m, f.c, f.tick),
                      [op |-> "output_values", c |-> f.c, tick |-> f.tick,
                       ps |-> Iter(OutputPins(kind), m.order.outputsDesc)],
                      [op |-> "simulate_fn", c |-> f.c, tick |-> f.tick,
                       stage |-> 0, left |-> None],
                      [op |-> "Available", c |-> f.c, tick |-> f.tick]>>, rest)

(* PinContainer::simulate returning without the store of Available *)
ContainerAvailableNotStored(m, f, rest) == Return(m, rest)

(* self.state.set(PinContainerState::Available(tick)) *)
ContainerAvailable(m, f, rest) ==
    Return([m EXCEPT !.state[f.c] = Available(f.tick)], rest)

(* The body of an InputComponent's closure: the staged value, if any,     *)
(* becomes the output and the stage is cleared.                           *)
InputSimulateFn(m, name, out) ==
    IF m.value_for_next_tick[name] # None
    THEN [m EXCEPT !.cell[out] = m.value_for_next_tick[name],
                   !.value_for_next_tick[name] = None]
    ELSE m

(* The closure without the inversion: the clock keeps its value. *)
ClockSimulateFnNoInversion(m, name, out) ==
    IF m.value_for_next_tick[name] # None
    THEN [m EXCEPT !.cell[out] = m.value_for_next_tick[name],
                   !.value_for_next_tick[name] = None]
    ELSE m

(* The closure reading value_for_next_tick without taking it. *)
ClockSimulateFnStageKept(m, name, out) ==
    IF m.value_for_next_tick[name] # None
    THEN [m EXCEPT !.cell[out] = m.value_for_next_tick[name]]
    ELSE [m EXCEPT !.cell[out] = Not(@)]

(* The body of the ClockComponent's closure. *)
ClockSimulateFn(m, name, out) ==
    IF m.value_for_next_tick[name] # None
    THEN [m EXCEPT !.cell[out] = m.value_for_next_tick[name],
                   !.value_for_next_tick[name] = None]
    ELSE [m EXCEPT !.cell[out] = Not(@)]

(* Err(..) of PinContainer::compute_input, on which unwrap() panics *)
IsErr(v) == v \in {InvalidPin, NotAnInput}

(* The closure each component hands to PinContainer::simulate. *)
SimulateFn(m, f, rest) ==
    LET kind == KindOf(types[f.c[1]], f.c[2])
        name == f.c[1]
        out == <<f.c[1], f.c[2], GateOutput(kind)>>
    IN  CASE kind = "input" ->
               Return(InputSimulateFn(m, name, <<name, TOP, 1>>), rest)
          [] kind = "clock" ->
               Return(ClockSimulateFn(m, name, <<name, TOP, 1>>), rest)
          [] kind \in CompositeTypes -> Return(m, rest)
          [] f.stage = 0 ->
               Call(m, <<ComputeInputFrame(f.c, 1), [f EXCEPT !.stage = 1]>>, rest)
          [] IsErr(m.ret) ->
               Panic(m, "called Result::unwrap() on an Err value")
          [] kind = "output" ->
               Return([m EXCEPT !.result[name] = m.ret], rest)
          [] kind = "GateNOT" ->
               Return([m EXCEPT !.cell[out] = Not(m.ret)], rest)
          [] f.stage = 1 ->
               Call(m, <<ComputeInputFrame(f.c, 2),
                         [f EXCEPT !.stage = 2, !.left = m.ret]>>, rest)
          [] OTHER ->
               Return([m EXCEPT !.cell[out] = OPERATION(kind, f.left, m.ret)], rest)

(* Component::simulate, by kind of component *)
ComponentSimulate(m, f, rest) ==
    LET kind == KindOf(types[f.c[1]], f.c[2])
    IN  CASE kind \in ConstTypes -> Return(m, rest)
          [] kind = "proxy" ->
               Call(m, <<SimulateAllInputsFrame(m, <<f.c[1], TOP>>, f.tick)>>, rest)
          [] OTHER -> ContainerSimulate(m, f, rest)

(* An input pin giving its aggregate to the peer that reads it. *)
PinComputeForExternalInputAggregate(m, c, pin) ==
    LET kind == KindOf(types[c[1]], c[2])
    IN  CASE pin \in InputPins(kind) -> m.input_value[<<c[1], c[2], pin>>]
          [] pin \in OutputPins(kind) -> m.cell[<<c[1], c[2], pin>>]
          [] OTHER -> Undefined

(* A pin without specification read as LOW. *)
PinComputeForExternalFloatingLow(m, c, pin) ==
    LET kind == KindOf(types[c[1]], c[2])
    IN  CASE pin \in InputPins(kind) -> FromBool(FALSE)
          [] pin \in OutputPins(kind) -> m.cell[<<c[1], c[2], pin>>]
          [] OTHER -> FromBool(FALSE)

(* Pin::compute_for_external of pin `pin` of container `c` *)
PinComputeForExternal(m, c, pin) ==
    LET kind == KindOf(types[c[1]], c[2])
    IN  CASE pin \in InputPins(kind) -> FromBool(FALSE)
          [] pin \in OutputPins(kind) -> m.cell[<<c[1], c[2], pin>>]
          [] OTHER -> Undefined

(* compute_for_external without the call of the output's simulate *)
ComputeForExternalNotForced(m, f, rest) ==
    LET kind == KindOf(types[f.c[1]], f.c[2])
    IN  CASE f.pin \notin 1..NbPins(kind) -> ReturnValue(m, rest, InvalidPin)
          [] OTHER -> ReturnValue(m, rest, PinComputeForExternal(m, f.c, f.pin))

(* PinContainer::compute_for_external *)
ComputeForExternal(m, f, rest) ==
    LET kind == KindOf(types[f.c[1]], f.c[2])
        st == m.state[f.c]
    IN  CASE f.pin \notin 1..NbPins(kind) -> ReturnValue(m, rest, InvalidPin)
          [] st[1] = "Computing"
             /\ OutputComputationMethod(kind, f.pin) = "Automatic" ->
               Call(m, <<OutputSimulateFrame(f.c[1], f.pin, st[2]),
                         [op |-> "Pin::compute_for_external", c |-> f.c,
                          pin |-> f.pin]>>, rest)
          [] OTHER -> ReturnValue(m, rest, PinComputeForExternal(m, f.c, f.pin))

(* PinContainer::compute_input *)
ComputeInput(m, f, rest) ==
    LET kind == KindOf(types[f.c[1]], f.c[2])
        p == <<f.c[1], f.c[2], f.pin>>
        st == m.state[f.c]
    IN  CASE f.pin \notin 1..NbPins(kind) -> ReturnValue(m, rest, InvalidPin)
          [] f.pin \notin InputPins(kind) -> ReturnValue(m, rest, NotAnInput)
          [] st[1] = "Computing" ->
               Call(m, <<PinSimulateFrame(p, st[2]),
                         [op |-> "InputPin::compute_input", pin |-> p]>>, rest)
          [] OTHER -> ReturnValue(ReadInput(m, p), rest, PinComputeInput(m, p))

(* The match of InternalComponentProxy::compute on the result of          *)
(* compute_input.                                                          *)
ProxyCompute(m, f, rest) ==
    ReturnValue(m, rest, IF m.ret = NotAnInput THEN Undefined ELSE m.ret)

(* Component::compute, by kind of component *)
ComponentCompute(m, f, rest) ==
    LET kind == KindOf(types[f.c[1]], f.c[2])
    IN  CASE kind \in ConstTypes ->
               ReturnValue(m, rest,
                           IF f.pin = 1 THEN FromBool(kind = "true") ELSE InvalidPin)
          [] kind = "proxy" ->
               Call(m, <<ComputeInputFrame(<<f.c[1], TOP>>, f.pin),
                         [op |-> "InternalComponentProxy::compute"]>>, rest)
          [] OTHER -> ComputeForExternal(m, f, rest)

(* the loop `for (_, component) in components.iter()` of build and simulate *)
SimulateComponents(m, f, rest) ==
    IF f.names = <<>> THEN Return(m, rest)
    ELSE Call(m, <<ComponentSimulateFrame(<<Head(f.names), TOP>>, f.tick),
                   [f EXCEPT !.names = Tail(@)]>>, rest)

(* One step of the evaluation: the innermost call runs. *)
Step(m) ==
    LET f == Head(m.stack)
        rest == Tail(m.stack)
    IN  CASE f.op = "components" -> SimulateComponents(m, f, rest)
          [] f.op = "Component::simulate" -> ComponentSimulate(m, f, rest)
          [] f.op = "Component::compute" -> ComponentCompute(m, f, rest)
          [] f.op = "simulate_all_inputs" -> SimulateAllInputs(m, f, rest)
          [] f.op = "output_values" -> OutputValues(m, f, rest)
          [] f.op = "simulate_fn" -> SimulateFn(m, f, rest)
          [] f.op = "Available" -> ContainerAvailable(m, f, rest)
          [] f.op = "InputPin::simulate" -> PinSimulate(m, f, rest)
          [] f.op = "recompute_input_cache" -> RecomputeInputCache(m, f, rest)
          [] f.op = "PinLink::compute" -> LinkCompute(m, f, rest)
          [] f.op = "OutputFromInternalComponents::simulate" ->
               OutputFromInternalSimulate(m, f, rest)
          [] f.op = "PinContainer::compute_input" -> ComputeInput(m, f, rest)
          [] f.op = "InputPin::compute_input" ->
               ReturnValue(ReadInput(m, f.pin), rest, PinComputeInput(m, f.pin))
          [] f.op = "Pin::compute_for_external" ->
               ReturnValue(m, rest, PinComputeForExternal(m, f.c, f.pin))
          [] f.op = "InternalComponentProxy::compute" -> ProxyCompute(m, f, rest)

(* Up to 2^k steps of the evaluation, or fewer when it has returned. *)
RECURSIVE Run(_, _)
Run(m, k) ==
    IF m.stack = <<>> THEN m
    ELSE IF k = 0 THEN Step(m)
    ELSE Run(Run(m, k - 1), k - 1)

(* An evaluation that has not returned within the step budget is given    *)
(* up and recorded as diverged.                                            *)
Finish(m) ==
    IF m.stack = <<>> THEN [m EXCEPT !.ret = None]
    ELSE [m EXCEPT !.stack = <<>>, !.ret = None, !.diverged = TRUE]

(***************************************************************************)
(* Construction of components (ComponentFactory::create_component and the  *)
(* constructors it calls).                                                 *)
(***************************************************************************)
EmptyMap == [x \in {} |-> None]

NoOrder == [comps |-> <<>>, pinsDesc |-> FALSE, outputsDesc |-> FALSE,
            linksDesc |-> FALSE]

NewCircuit(order) ==
    [current_tick |-> 0, order |-> order,
     input_state |-> EmptyMap, input_value |-> EmptyMap, state |-> EmptyMap,
     cell |-> EmptyMap, result |-> EmptyMap, value_for_next_tick |-> EmptyMap,
     runs |-> EmptyMap, calls |-> 0, reentered |-> {}, fatal |-> None,
     diverged |-> FALSE,
     stack |-> <<>>, ret |-> None]

InputKinds == {"input", "clock"}
OutputKinds == {"output"}

(* The fields of a freshly constructed component, added to the circuit.   *)
CreateComponent(m, name, type) ==
    [m EXCEPT
       !.input_state = @ @@ [p \in InputPinsOf(name, type) |-> NeverComputed],
       !.input_value = @ @@ [p \in InputPinsOf(name, type) |-> TristateDefault],
       !.state = @ @@ [c \in NodesOf(name, type) |-> NeverComputed],
       !.cell = @ @@ [p \in CellsOf(name, type) |-> TristateDefault],
       !.result = @ @@ [n \in IF type \in OutputKinds THEN {name} ELSE {}
                          |-> TristateDefault],
       !.value_for_next_tick = @ @@ [n \in IF type \in InputKinds THEN {name} ELSE {}
                                        |-> None],
       !.runs = @ @@ [c \in NodesOf(name, type) |-> 0]]

(***************************************************************************)
(* CircuitBuilder (circuit/builder.rs).  A builder method that returns Err *)
(* has consumed the builder: phase "failed" has no way on.                 *)
(***************************************************************************)
Ok == <<"Ok">>

(* set_link without the check of the pin number *)
SetLinkResultUnchecked(type, pin) == Ok

(* set_link taking pin 0 for a pin of the component *)
SetLinkResultZeroAccepted(type, pin) ==
    IF type \in ConstTypes
    THEN IF pin \in 0..1 THEN Ok ELSE <<InvalidPin, pin>>
    ELSE IF pin \in 0..NbPins(type) THEN Ok ELSE <<InvalidPin, pin>>

(* The result of Component::set_link of a component of the given type:    *)
(* ConstStateComponent has the one pin 1, a PinContainer checks the pin   *)
(* against all_pins.                                                       *)
SetLinkResult(type, pin) ==
    IF type \in ConstTypes
    THEN IF pin = 1 THEN Ok ELSE <<InvalidPin, pin>>
    ELSE IF pin \in 1..NbPins(type) THEN Ok ELSE <<InvalidPin, pin>>

(* set_link recording nothing on either kind of pin *)
SetLinkNotRecorded(ls, name, type, pin, other, other_pin) == ls

(* set_link recording the link on whatever pin it is given *)
SetLinkOnAnyPin(ls, name, type, pin, other, other_pin) ==
    IF SetLinkResult(type, pin) # Ok THEN ls
    ELSE IF <<name, TOP, pin>> \in DOMAIN ls
    THEN [ls EXCEPT ![<<name, TOP, pin>>] = @ \cup {<<other, TOP, other_pin>>}]
    ELSE ls @@ (<<name, TOP, pin>> :> {<<other, TOP, other_pin>>})

(* PinContainer::set_link_to_external_component *)
SetLink(ls, name, type, pin, other, other_pin) ==
    IF SetLinkResult(type, pin) = Ok /\ pin \in InputPins(type)
    THEN [ls EXCEPT ![<<name, TOP, pin>>] = @ \cup {<<other, TOP, other_pin>>}]
    ELSE ls

(* CircuitBuilder::add_component *)
AddComponent(type_str, name) ==
    /\ phase = "building"
    /\ input # <<>> /\ Head(input) = <<"chipset", type_str, name>>
    /\ input' = Tail(input)
    /\ LET type == TypeFromStr(type_str)
       IN  IF type = "InvalidValue"
           THEN /\ phase' = "failed"
                /\ lastResult' = <<"ComponentTypeUnknown", type_str>>
                /\ UNCHANGED <<types, links, circuit, shadow>>
           ELSE IF name \in DOMAIN types
           THEN /\ phase' = "failed"
                /\ lastResult' = <<"ComponentNameExists", name>>
                /\ UNCHANGED <<types, links, circuit, shadow>>
           ELSE /\ types' = types @@ (name :> type)
                /\ links' = links @@ InternalLinks(name, type)
                /\ circuit' = CreateComponent(circuit, name, type)
                /\ shadow' = CreateComponent(shadow, name, type)
                /\ lastResult' = Ok
                /\ UNCHANGED phase

(* CircuitBuilder::link_components *)
LinkComponents(left, left_pin, right, right_pin) ==
    /\ phase = "building"
    /\ input # <<>> /\ Head(input) = <<"link", left, left_pin, right, right_pin>>
    /\ input' = Tail(input)
    /\ UNCHANGED <<types, circuit, shadow>>
    /\ IF left \notin DOMAIN types
       THEN /\ phase' = "failed"
            /\ lastResult' = <<"ComponentNameUnknown", left>>
            /\ UNCHANGED links
       ELSE IF right \notin DOMAIN types
       THEN /\ phase' = "failed"
            /\ lastResult' = <<"ComponentNameUnknown", right>>
            /\ UNCHANGED links
       ELSE IF SetLinkResult(types[left], left_pin) # Ok
       THEN /\ phase' = "failed"
            /\ lastResult' = <<"ComponentLinkIssue", left, types[left], left_pin>>
            /\ UNCHANGED links
       ELSE LET ls1 == SetLink(links, left, types[left], left_pin, right, right_pin)
            IN  IF SetLinkResult(types[right], right_pin) # Ok
                THEN /\ phase' = "failed"
                     /\ lastResult' = <<"ComponentLinkIssue", right, types[right],
                                        right_pin>>
                     /\ links' = ls1
                ELSE /\ links' = SetLink(ls1, right, types[right], right_pin,
                                         left, left_pin)
                     /\ lastResult' = Ok
                     /\ UNCHANGED phase
(***************************************************************************)
(* Circuit (circuit/mod.rs)                                                *)
(***************************************************************************)

(* A call of the circuit: the counters of the call start from zero, the   *)
(* components are simulated in the order of the components map.           *)
SimulateAll(m, tick) ==
    Finish(Run([m EXCEPT !.runs = [c \in DOMAIN @ |-> 0], !.calls = 0,
                         !.reentered = {},
                         !.stack = <<[op |-> "components", names |-> m.order.comps,
                                      tick |-> tick]>>],
               FuelBits))

AfterCall(m) ==
    IF m.fatal # None THEN "aborted" ELSE "built"

(* build without its evaluation at tick 0 *)
BuildCircuitNoEvaluation(m) == m

(* The tick-0 evaluation of CircuitBuilder::build. *)
BuildCircuit(m) ==
    SimulateAll([m EXCEPT !.current_tick = 0], 0)

(* simulate without the increment of current_tick *)
SimulateCircuitTickKept(m) ==
    SimulateAll(m, m.current_tick + 1)

(* The body of Circuit::simulate. *)
SimulateCircuit(m) ==
    SimulateAll([m EXCEPT !.current_tick = @ + 1], m.current_tick + 1)

(* `shadow` is a second run of the same circuit on the same calls under   *)
(* another hash order; it is not run when its order is NoOrder.           *)
Shadowed == shadow.order # NoOrder

(* CircuitBuilder::build *)
Build ==
    /\ phase = "building"
    /\ input = <<>>
    /\ UNCHANGED <<input, types, links>>
    /\ IF DOMAIN types = {}
       THEN /\ phase' = "failed"
            /\ lastResult' = <<"NoChipset">>
            /\ UNCHANGED <<circuit, shadow>>
       ELSE /\ circuit' = BuildCircuit(circuit)
            /\ shadow' = IF Shadowed THEN BuildCircuit(shadow) ELSE shadow
            /\ phase' = AfterCall(circuit')
            /\ lastResult' = Ok

(* Circuit::simulate *)
Simulate ==
    /\ phase = "built"
    /\ circuit.current_tick < MaxTick
    /\ UNCHANGED <<input, types, links>>
    /\ circuit' = SimulateCircuit(circuit)
    /\ shadow' = IF Shadowed THEN SimulateCircuit(shadow) ELSE shadow
    /\ phase' = AfterCall(circuit')
    /\ lastResult' = Ok

(* set_state_for_next_tick writing the output cell at once *)
SetStateForNextTickNow(m, name, state) ==
    [m EXCEPT !.cell[<<name, TOP, 1>>] = state]

(* Input::set_state_for_next_tick of InputComponent and ClockComponent *)
SetStateForNextTick(m, name, state) ==
    [m EXCEPT !.value_for_next_tick[name] = state]

(* set_value taking an unknown name for a component that is no input *)
SetValueResultUnknownAsNotInput(name, text) ==
    CASE FromStr(text) = ParseError -> <<"ValueParseError", text>>
      [] name \notin DOMAIN types -> <<"NotAnInput", name>>
      [] types[name] \notin InputKinds -> <<"NotAnInput", name>>
      [] OTHER -> Ok

(* set_value looking the name up before it parses the value *)
SetValueResultNameFirst(name, text) ==
    CASE name \notin DOMAIN types -> <<"UnknownName", name>>
      [] types[name] \notin InputKinds -> <<"NotAnInput", name>>
      [] FromStr(text) = ParseError -> <<"ValueParseError", text>>
      [] OTHER -> Ok

(* The result of Circuit::set_value: the value is parsed, then the name   *)
(* is looked up, then the component is asked for its input capability.    *)
SetValueResult(name, text) ==
    CASE FromStr(text) = ParseError -> <<"ValueParseError", text>>
      [] name \notin DOMAIN types -> <<"UnknownName", name>>
      [] types[name] \notin InputKinds -> <<"NotAnInput", name>>
      [] OTHER -> Ok

(* Circuit::set_value *)
SetValue(name, text) ==
    /\ phase = "built"
    /\ UNCHANGED <<input, phase, types, links>>
    /\ lastResult' = SetValueResult(name, text)
    /\ circuit' = IF SetValueResult(name, text) = Ok
                  THEN SetStateForNextTick(circuit, name, FromStr(text))
                  ELSE circuit
    /\ shadow' = IF Shadowed /\ SetValueResult(name, text) = Ok
                 THEN SetStateForNextTick(shadow, name, FromStr(text))
                 ELSE shadow

(* Input::get_current_state: the output cell of the component *)
GetCurrentState(m, name) ==
    PinComputeForExternal(m, <<name, TOP>>, 1)

(* Circuit::get_input *)
GetInput(m, name) ==
    IF name \in DOMAIN types /\ types[name] \in InputKinds
    THEN Display(GetCurrentState(m, name))
    ELSE None

(* Circuit::get_output *)
GetOutput(m, name) ==
    IF name \in DOMAIN types /\ types[name] \in OutputKinds
    THEN Display(m.result[name])
    ELSE None

(***************************************************************************)
(* Circuit descriptions: the chipset and link instructions that            *)
(* Parser::read hands to the builder, in order.                            *)
(***************************************************************************)
Chipset(type, name) == <<"chipset", type, name>>
Link(left, left_pin, right, right_pin) == <<"link", left, left_pin, right, right_pin>>

(* tests/.nts/input_output.nts *)
IdentityWire ==
    <<Chipset("input", "in"), Chipset("output", "out"), Link("in", 1, "out", 1)>>

(* tests/.nts/clock.nts *)
ClockWire ==
    <<Chipset("clock", "cl"), Chipset("output", "out"), Link("cl", 1, "out", 1)>>

(* tests/.nts/true.nts and tests/.nts/false.nts *)
TrueWire ==
    <<Chipset("true", "t"), Chipset("output", "out"), Link("t", 1, "out", 1)>>

FalseWire ==
    <<Chipset("false", "f"), Chipset("output", "out"), Link("out", 1, "f", 1)>>

(* One input read by two outputs. *)
FanOut ==
    <<Chipset("input", "in"), Chipset("output", "out"), Chipset("output", "o2"),
      Link("in", 1, "out", 1), Link("o2", 1, "in", 1)>>

(* An output component linked to itself. *)
OutputSelf ==
    <<Chipset("output", "out"), Chipset("input", "in"), Link("out", 1, "out", 1),
      Link("in", 1, "out", 1)>>

(* Two input pins linked to each other. *)
OutputPair ==
    <<Chipset("output", "out"), Chipset("output", "o2"), Chipset("clock", "cl"),
      Link("out", 1, "o2", 1), Link("cl", 1, "o2", 1)>>

(* A 4001 whose first gate reads its own output. *)
GateSelfLoop ==
    <<Chipset("input", "in"), Chipset("4001", "ic"), Chipset("output", "out"),
      Link("in", 1, "ic", 1), Link("ic", 3, "ic", 2), Link("ic", 3, "out", 1)>>

(* Two cross-coupled NOR gates of one 4001, reset by an input. *)
CrossCoupled ==
    <<Chipset("input", "in"), Chipset("4001", "ic"), Chipset("output", "out"),
      Link("in", 1, "ic", 1), Link("ic", 4, "ic", 2), Link("ic", 3, "ic", 5),
      Link("ic", 4, "out", 1)>>

(* A cycle through two composites: a NOR gate and an inverter. *)
TwoChips ==
    <<Chipset("clock", "cl"), Chipset("4001", "ic"), Chipset("4069", "inv"),
      Link("cl", 1, "ic", 1), Link("ic", 3, "inv", 1), Link("inv", 2, "ic", 2)>>

(* One NOR gate of a 4001 between an input and an output. *)
NorGate ==
    <<Chipset("input", "in"), Chipset("4001", "ic"), Chipset("output", "out"),
      Link("in", 1, "ic", 1), Link("out", 1, "ic", 3)>>

(* Descriptions the builder rejects. *)
UnknownType == <<Chipset("input", "in"), Chipset("nand", "x")>>
DuplicateName == <<Chipset("input", "in"), Chipset("output", "in")>>
UnknownName == <<Chipset("input", "in"), Link("in", 1, "out", 1)>>
InvalidPinLeft ==
    <<Chipset("input", "in"), Chipset("output", "out"), Link("in", 2, "out", 1)>>
InvalidPinRight ==
    <<Chipset("4001", "ic"), Chipset("output", "out"), Link("out", 1, "ic", 15)>>
NoChipset == <<>>

(* An output driven by a constant and by an input. *)
TrueAndInput ==
    <<Chipset("true", "t"), Chipset("input", "in"), Chipset("output", "out"),
      Link("t", 1, "out", 1), Link("out", 1, "in", 1)>>

FalseAndInput ==
    <<Chipset("false", "f"), Chipset("input", "in"), Chipset("output", "out"),
      Link("out", 1, "f", 1), Link("in", 1, "out", 1)>>

(* Constants read by outputs beside a clock and an input with their own   *)
(* outputs.                                                                *)
ConstantsAside ==
    <<Chipset("true", "t"), Chipset("false", "f"), Chipset("clock", "cl"),
      Chipset("output", "out"), Chipset("output", "o2"), Chipset("output", "o3"),
      Link("t", 1, "out", 1), Link("f", 1, "o2", 1), Link("cl", 1, "o3", 1)>>

(* The sum bit of a half adder: a XOR b out of the four NAND gates of one  *)
(* 4011.                                                                   *)
XorNand ==
    <<Chipset("input", "a"), Chipset("input", "b"), Chipset("4011", "ic"),
      Chipset("output", "out"),
      Link("a", 1, "ic", 1), Link("b", 1, "ic", 2),
      Link("ic", 3, "ic", 5), Link("a", 1, "ic", 6),
      Link("ic", 3, "ic", 8), Link("b", 1, "ic", 9),
      Link("ic", 4, "ic", 12), Link("ic", 10, "ic", 13),
      Link("ic", 11, "out", 1)>>

(* An SR latch: gate 1 of a 4001 is NOR(r, nq) = q, gate 2 is             *)
(* NOR(q, s) = nq.                                                        *)
SRLatch ==
    <<Chipset("input", "s"), Chipset("input", "r"), Chipset("4001", "ic"),
      Chipset("output", "q"), Chipset("output", "nq"),
      Link("r", 1, "ic", 1), Link("ic", 4, "ic", 2),
      Link("ic", 3, "ic", 5), Link("s", 1, "ic", 6),
      Link("ic", 3, "q", 1), Link("ic", 4, "nq", 1)>>

(* One output driven by two inputs. *)
TwoDrivers ==
    <<Chipset("input", "a"), Chipset("input", "b"), Chipset("output", "out"),
      Link("a", 1, "out", 1), Link("out", 1, "b", 1)>>


SinglePinPrograms ==
    {IdentityWire, ClockWire, TrueWire, FalseWire, FanOut, OutputSelf, OutputPair}
CompositePrograms == {GateSelfLoop, CrossCoupled, TwoChips, NorGate}
RejectedPrograms ==
    {UnknownType, DuplicateName, UnknownName, InvalidPinLeft, InvalidPinRight,
     NoChipset}
Programs == SinglePinPrograms \cup CompositePrograms \cup RejectedPrograms

(* Inputs, clocks and constants wired to outputs. *)
WirePrograms ==
    {IdentityWire, ClockWire, TrueWire, FalseWire, FanOut, TrueAndInput,
     FalseAndInput, ConstantsAside}

(* Circuits run twice, under two hash orders. *)
OrderPrograms ==
    {IdentityWire, ClockWire, FanOut, OutputPair, NorGate, GateSelfLoop,
     CrossCoupled}

(* Circuits of gates driven by two inputs. *)
GatePrograms == {SRLatch, TwoDrivers}

AllPrograms ==
    Programs \cup WirePrograms \cup OrderPrograms \cup GatePrograms \cup {XorNand}

(* The chipset and link instructions of the descriptions. *)
Instructions(kind) ==
    UNION {{p[i] : i \in {j \in DOMAIN p : p[j][1] = kind}} : p \in AllPrograms}

(* The arguments set_value is called with. *)
Names == {"in", "cl", "out", "x"}
Texts == {"0", "1", "U", "x"}
GateNames == {"a", "b", "s", "r"}
ValueTexts == {"0", "1", "U"}

(***************************************************************************)
(* The hash orders a description can be run under.  A walk over at most    *)
(* one element has one order: pinsDesc and outputsDesc vary only when a    *)
(* composite is declared, linksDesc only when an input pin has two links.  *)
(* Up to MaxPermuted components every order of the components map is       *)
(* taken, above that the order of declaration and its reverse.             *)
(***************************************************************************)
Perms(S) ==
    {s \in [1..Cardinality(S) -> S] : \A x \in S : \E i \in DOMAIN s : s[i] = x}

ChipsetNames(p) == {p[i][3] : i \in {j \in DOMAIN p : p[j][1] = "chipset"}}

HasComposite(p) ==
    \E i \in DOMAIN p : p[i][1] = "chipset" /\ p[i][2] \in CompositeTypes

(* The type a description declares for a name. *)
TypeIn(p, name) ==
    LET i == CHOOSE j \in DOMAIN p : p[j][1] = "chipset" /\ p[j][3] = name
    IN  p[i][2]

(* The input pins among the two ends of a link instruction. *)
InputEnds(p, l) ==
    {e \in {<<l[2], l[3]>>, <<l[4], l[5]>>} :
        /\ e[1] \in ChipsetNames(p)
        /\ e[2] \in InputPins(TypeIn(p, e[1]))}

(* Some input pin gets two links. *)
MultiLinked(p) ==
    \E i, j \in DOMAIN p :
        /\ i < j /\ p[i][1] = "link" /\ p[j][1] = "link"
        /\ InputEnds(p, p[i]) \cap InputEnds(p, p[j]) # {}

(* The declared names, in the order of declaration. *)
Declared(p) ==
    LET cs == SelectSeq(p, LAMBDA i : i[1] = "chipset")
    IN  [i \in DOMAIN cs |-> cs[i][3]]

CompOrders(p) ==
    IF Cardinality(ChipsetNames(p)) <= MaxPermuted
    THEN Perms(ChipsetNames(p))
    ELSE {Declared(p), Reverse(Declared(p))}

Orders(p) ==
    [comps : CompOrders(p),
     pinsDesc : IF HasComposite(p) THEN BOOLEAN ELSE {FALSE},
     outputsDesc : IF HasComposite(p) THEN BOOLEAN ELSE {FALSE},
     linksDesc : IF MultiLinked(p) THEN BOOLEAN ELSE {FALSE}]

(***************************************************************************)
(* The specification: a description is handed to the builder instruction   *)
(* by instruction, the circuit is built, then simulate and set_value are   *)
(* called in any order.                                                    *)
(***************************************************************************)
Start(p, order, order2) ==
    /\ input = p
    /\ phase = "building"
    /\ types = EmptyMap
    /\ links = EmptyMap
    /\ circuit = NewCircuit(order)
    /\ shadow = NewCircuit(order2)
    /\ lastResult = Ok

Init == \E p \in Programs : \E o \in Orders(p) : Start(p, o, NoOrder)

Next ==
    \/ \E i \in Instructions("chipset") : AddComponent(i[2], i[3])
    \/ \E i \in Instructions("link") : LinkComponents(i[2], i[3], i[4], i[5])
    \/ Build
    \/ Simulate
    \/ \E n \in Names, v \in Texts : SetValue(n, v)

Spec == Init /\ [][Next]_vars

(* The same calls on the wire circuits only. *)
InitWires == \E p \in WirePrograms : \E o \in Orders(p) : Start(p, o, NoOrder)

SpecWires == InitWires /\ [][Next]_vars

(***************************************************************************)
(* Two runs of one circuit on the same calls: `circuit` under the order of *)
(* declaration, `shadow` under any order of the components map, of         *)
(* all_pins and output_values, and of the link sets.                       *)
(***************************************************************************)
DeclaredOrder(p) ==
    [comps |-> Declared(p), pinsDesc |-> FALSE, outputsDesc |-> FALSE,
     linksDesc |-> FALSE]

InitOrder ==
    \E p \in OrderPrograms : \E o2 \in Orders(p) : Start(p, DeclaredOrder(p), o2)

SpecOrder == InitOrder /\ [][Next]_vars

(* The gate circuits: the same build, then simulate and set_value of a    *)
(* valid text on their inputs.                                            *)
InitGates == \E p \in GatePrograms : \E o \in Orders(p) : Start(p, o, NoOrder)

NextGates ==
    \/ \E i \in Instructions("chipset") : AddComponent(i[2], i[3])
    \/ \E i \in Instructions("link") : LinkComponents(i[2], i[3], i[4], i[5])
    \/ Build
    \/ Simulate
    \/ \E n \in GateNames, v \in ValueTexts : SetValue(n, v)

SpecGates == InitGates /\ [][NextGates]_vars

(* The half adder alone. *)
InitAdder == \E o \in Orders(XorNand) : Start(XorNand, o, NoOrder)

SpecAdder == InitAdder /\ [][NextGates]_vars

(***************************************************************************)
(* The builder protocol: up to two add_component calls and at most one     *)
(* link_components call, with type strings in and outside the catalog,     *)
(* names registered or not, and pin numbers from 0 to one past the last    *)
(* pin of a composite.                                                     *)
(***************************************************************************)
BuilderTypes == {"input", "output", "false", "4001", "nand"}
BuilderNames == {"a", "b"}
BuilderPins == {0, 1, 2, 3, 15}

BuilderPrograms ==
    LET adds == {Chipset(t, n) : t \in BuilderTypes, n \in BuilderNames}
        lks == {Link(l, pl, r, pr) : l \in BuilderNames, pl \in BuilderPins,
                                     r \in BuilderNames, pr \in BuilderPins}
    IN  {cs \o ls : cs \in {<<>>} \cup {<<c>> : c \in adds}
                              \cup {<<c, d>> : c \in adds, d \in adds},
                    ls \in {<<>>} \cup {<<l>> : l \in lks}}

InitBuilder == \E p \in BuilderPrograms : \E o \in Orders(p) : Start(p, o, NoOrder)

NextBuilder ==
    \/ \E t \in BuilderTypes, n \in BuilderNames : AddComponent(t, n)
    \/ \E l, r \in BuilderNames, pl, pr \in BuilderPins : LinkComponents(l, pl, r, pr)
    \/ Build
    \/ Simulate
    \/ \E n \in BuilderNames, v \in ValueTexts : SetValue(n, v)

SpecBuilder == InitBuilder /\ [][NextBuilder]_vars

(***************************************************************************)
(* One gate of an IC between input components and an output component:    *)
(* every two-input IC and the 4069, every gate of it, the other gates      *)
(* left unconnected or, for `busy`, the next gate driven by the same       *)
(* inputs.  simulate is called up to MaxGateTick times.                    *)
(***************************************************************************)
MaxGateTick == 2

GateCircuit(type, g, busy) ==
    LET two == <<<<1, 2, 3>>, <<5, 6, 4>>, <<8, 9, 10>>, <<12, 13, 11>>>>
        one == <<<<1, 2>>, <<3, 4>>, <<5, 6>>, <<9, 8>>, <<11, 10>>, <<13, 12>>>>
        h == (g % 4) + 1
    IN  IF type = "4069"
        THEN <<Chipset("input", "a"), Chipset(type, "ic"), Chipset("output", "out"),
               Link("a", 1, "ic", one[g][1]), Link("ic", one[g][2], "out", 1)>>
             \o (IF busy THEN <<Link("ic", one[h][1], "a", 1)>> ELSE <<>>)
        ELSE <<Chipset("input", "a"), Chipset("input", "b"), Chipset(type, "ic"),
               Chipset("output", "out"),
               Link("a", 1, "ic", two[g][1]), Link("ic", two[g][2], "b", 1),
               Link("ic", two[g][3], "out", 1)>>
             \o (IF busy THEN <<Link("b", 1, "ic", two[h][1]),
                                Link("a", 1, "ic", two[h][2])>> ELSE <<>>)

LogicPrograms ==
    {GateCircuit(t, g, FALSE) : t \in TwoInputsTypes, g \in 1..4}
    \cup {GateCircuit("4069", g, FALSE) : g \in 1..6}
    \cup {GateCircuit(t, 1, TRUE) : t \in CompositeTypes}

(* The order of declaration and its reverse, with every order of all_pins  *)
(* and output_values.                                                      *)
LogicOrders(p) ==
    [comps : {Declared(p), Reverse(Declared(p))},
     pinsDesc : BOOLEAN, outputsDesc : BOOLEAN, linksDesc : {FALSE}]

InitLogic == \E p \in LogicPrograms : \E o \in LogicOrders(p) : Start(p, o, NoOrder)

NextLogic ==
    \/ /\ input # <<>> /\ Head(input)[1] = "chipset"
       /\ AddComponent(Head(input)[2], Head(input)[3])
    \/ /\ input # <<>> /\ Head(input)[1] = "link"
       /\ LinkComponents(Head(input)[2], Head(input)[3], Head(input)[4],
                         Head(input)[5])
    \/ Build
    \/ circuit.current_tick < MaxGateTick /\ Simulate
    \/ \E n \in {"a", "b"}, v \in ValueTexts : SetValue(n, v)

SpecLogic == InitLogic /\ [][NextLogic]_vars

TypeOK ==
    /\ phase \in {"building", "failed", "built", "aborted"}
    /\ circuit.current_tick \in 0..MaxTick

(***************************************************************************)
(* Parser (circuit/parser.rs).  A text is the sequence of its lines, as    *)
(* str::lines gives them, and a line is the sequence of its characters.    *)
(***************************************************************************)
CHIPSET_DECLARATION == <<".", "c", "h", "i", "p", "s", "e", "t", "s", ":">>
LINK_DECLARATION == <<".", "l", "i", "n", "k", "s", ":">>

(* The characters str::trim and str::split_whitespace take for white      *)
(* space, among those of the texts considered.                             *)
WhiteSpace == {" ", "\t"}

(* str::find: the position of the first occurrence, 0 for None *)
Find(content, c) ==
    LET hits == {k \in DOMAIN content : content[k] = c}
    IN  IF hits = {} THEN 0 ELSE CHOOSE k \in hits : \A h \in hits : k <= h

(* the line kept whole, its comment included *)
StripCommentKept(content) == content

(* &content[..comment_idx] when the line holds a '#' *)
StripComment(content) ==
    IF Find(content, "#") # 0
    THEN SubSeq(content, 1, Find(content, "#") - 1)
    ELSE content

(* str::trim *)
Trim(content) ==
    LET kept == {k \in DOMAIN content : content[k] \notin WhiteSpace}
    IN  IF kept = {} THEN <<>>
        ELSE SubSeq(content,
                    CHOOSE k \in kept : \A h \in kept : k <= h,
                    CHOOSE k \in kept : \A h \in kept : h <= k)

(* The pieces of `content` that the positions in `cuts` separate, empty    *)
(* pieces included.                                                        *)
Pieces(content, cuts) ==
    LET bounds == cuts \cup {0, Len(content) + 1}
        Nth(j) == CHOOSE b \in bounds : Cardinality({c \in bounds : c < b}) = j
    IN  [j \in 1..(Cardinality(bounds) - 1) |->
            SubSeq(content, Nth(j - 1) + 1, Nth(j) - 1)]

(* str::split_whitespace: the non-empty runs between white space *)
SplitWhitespace(content) ==
    SelectSeq(Pieces(content, {k \in DOMAIN content : content[k] \in WhiteSpace}),
              LAMBDA w : w # <<>>)

(* str::split(':') *)
SplitColon(content) ==
    Pieces(content, {k \in DOMAIN content : content[k] = ":"})

Digits == <<"0", "1", "2", "3", "4", "5", "6", "7", "8", "9">>

RECURSIVE DecimalValue(_)
DecimalValue(digits) ==
    IF digits = <<>> THEN 0
    ELSE 10 * DecimalValue(SubSeq(digits, 1, Len(digits) - 1))
         + (CHOOSE d \in 0..9 : Digits[d + 1] = digits[Len(digits)])

(* str::parse::<PinNumber>, PinNumber = usize: an optional '+' and at      *)
(* least one digit, nothing else.  The texts considered are too short to   *)
(* overflow usize.                                                         *)
ParsePinNumber(text) ==
    LET digits == IF text # <<>> /\ text[1] = "+" THEN Tail(text) ELSE text
    IN  IF digits # <<>>
           /\ \A k \in DOMAIN digits : \E d \in DOMAIN Digits : Digits[d] = digits[k]
        THEN <<"Ok", DecimalValue(digits)>>
        ELSE <<"Err", "ParseIntError">>

(* Parser::parse_chipset_line *)
ParseChipsetLine(content) ==
    LET words == SplitWhitespace(content)
    IN  IF Len(words) = 2
        THEN <<"Ok", [op |-> "AddComponent", name |-> words[2],
                      component_type |-> words[1]]>>
        ELSE <<"Err", <<"InvalidChipsetFormat">>>>

(* parse_simple_link of Parser::parse_link_line *)
ParseSimpleLink(content) ==
    LET parts == SplitColon(content)
    IN  IF Len(parts) = 2
        THEN IF ParsePinNumber(parts[2])[1] = "Ok"
             THEN <<"Ok", parts[1], ParsePinNumber(parts[2])[2]>>
             ELSE <<"Err", <<"InvalidLinkPin", parts[2]>>>>
        ELSE <<"Err", <<"InvalidLinkFormat">>>>

(* Parser::parse_link_line *)
ParseLinkLine(content) ==
    LET words == SplitWhitespace(content)
    IN  IF Len(words) = 2
        THEN LET left == ParseSimpleLink(words[1])
                 right == ParseSimpleLink(words[2])
             IN  IF left[1] = "Err" THEN left
                 ELSE IF right[1] = "Err" THEN right
                 ELSE <<"Ok", [op |-> "LinkComponents",
                               left_name |-> left[2], left_pin |-> left[3],
                               right_name |-> right[2], right_pin |-> right[3]]>>
        ELSE <<"Err", <<"InvalidLinkFormat">>>>

(* the line number kept as the position of enumerate() *)
LineNumberFromZero(index) == index

(* let index = index + 1 *)
LineNumber(index) == index + 1

(* a redeclaration never noticed *)
AlreadyDeclaredNever(already_declared, declaration) == FALSE

(* !already_declared.insert(declaration) *)
AlreadyDeclared(already_declared, declaration) == declaration \in already_declared

(* The loop of Parser::parse_lines from the line at position `n` of        *)
(* enumerate(), and the check that follows it.                             *)
RECURSIVE ParseLinesFrom(_, _, _, _, _)
ParseLinesFrom(lines, n, current_declaration, already_declared, output) ==
    IF n = Len(lines)
    THEN IF already_declared = {} THEN <<"Err", 0, <<"Empty">>>>
         ELSE <<"Ok", output>>
    ELSE
    LET index == LineNumber(n)
        content == Trim(StripComment(lines[n + 1]))
    IN  IF content = <<>>
        THEN ParseLinesFrom(lines, n + 1, current_declaration, already_declared,
                            output)
        ELSE IF content \in {CHIPSET_DECLARATION, LINK_DECLARATION}
        THEN LET declaration ==
                     IF content = CHIPSET_DECLARATION THEN "Chipsets" ELSE "Links"
             IN  IF AlreadyDeclared(already_declared, declaration)
                 THEN <<"Err", index, <<"DeclarationDuplicate", content>>>>
                 ELSE IF current_declaration = None /\ declaration # "Chipsets"
                 THEN <<"Err", index, <<"FirstDeclarationMismatch">>>>
                 ELSE ParseLinesFrom(lines, n + 1, declaration,
                                     already_declared \cup {declaration}, output)
        ELSE LET instruction ==
                     CASE current_declaration = "Chipsets" -> ParseChipsetLine(content)
                       [] current_declaration = "Links" -> ParseLinkLine(content)
                       [] OTHER -> <<"Err", <<"FirstDeclarationMismatch">>>>
             IN  IF instruction[1] = "Err"
                 THEN <<"Err", index, instruction[2]>>
                 ELSE ParseLinesFrom(lines, n + 1, current_declaration,
                                     already_declared,
                                     Append(output, [index |-> index,
                                                     instruction |-> instruction[2]]))

(* Parser::parse_lines *)
ParseLines(lines) == ParseLinesFrom(lines, 0, None, {}, <<>>)

(* The call of parse_lines in Parser::read, with its map_err to           *)
(* ParseCircuitError::Syntax: `input` is the text, and lastResult becomes  *)
(* the lines or the error.                                                 *)
ParseLinesCall ==
    /\ phase = "parsing"
    /\ lastResult' = IF ParseLines(input)[1] = "Ok" THEN ParseLines(input)
                     ELSE <<"Syntax", ParseLines(input)[2], ParseLines(input)[3]>>
    /\ phase' = IF ParseLines(input)[1] = "Ok" THEN "parsed" ELSE "failed"
    /\ UNCHANGED <<input, types, links, circuit, shadow>>

(* The lines of the texts: blank, a comment that holds a header, the two   *)
(* headers bare and between white space and a comment, a chipset line, a   *)
(* link line, a link line with a pin that is no number, and a header with  *)
(* a character after it.                                                   *)
ParserLines ==
    {<<>>,
     <<"#">> \o LINK_DECLARATION,
     CHIPSET_DECLARATION,
     <<" ">> \o CHIPSET_DECLARATION \o <<"\t", "#", "x">>,
     LINK_DECLARATION,
     <<"\t">> \o LINK_DECLARATION \o <<" ", "#">>,
     <<"i", " ", "a">>,
     <<"a", ":", "1", " ", "b", ":", "+", "2">>,
     <<"a", ":", "x", " ", "b", ":", "1">>,
     CHIPSET_DECLARATION \o <<"x">>}

MaxLines == 4

ParserTexts == UNION {[1..k -> ParserLines] : k \in 0..MaxLines}

InitParser ==
    /\ input \in ParserTexts
    /\ phase = "parsing"
    /\ types = EmptyMap
    /\ links = EmptyMap
    /\ circuit = NewCircuit(NoOrder)
    /\ shadow = NewCircuit(NoOrder)
    /\ lastResult = Ok

NextParser == ParseLinesCall

SpecParser == InitParser /\ [][NextParser]_vars

(***************************************************************************)
(* The operations of Tristate called one after the other on a value: the   *)
(* operators with any right operand, Display on a value and from_str on a  *)
(* text.  `input` is the list of the calls still to make, lastResult the   *)
(* last call with its arguments and what it returned; a call that does not *)
(* fit the type of the value at hand is not made.                          *)
(***************************************************************************)
MaxCalls == 2

TristateTexts == {"0", "1", "U", "u", "", "x", "01", "2"}

TristateCalls ==
    {<<op, v>> : op \in {"BitOr", "BitAnd", "BitXor"}, v \in Tristate}
    \cup {<<"Not">>, <<"Display">>, <<"FromStr">>}

InitTristate ==
    /\ input \in UNION {[1..k -> TristateCalls] : k \in 0..MaxCalls}
    /\ lastResult \in [call : {<<>>},
                        ret : {<<"Tristate", v>> : v \in Tristate}
                              \cup {<<"str", t>> : t \in TristateTexts}]
    /\ phase = "evaluating"
    /\ types = EmptyMap
    /\ links = EmptyMap
    /\ circuit = NewCircuit(NoOrder)
    /\ shadow = NewCircuit(NoOrder)

(* The next call is `call` and the value at hand has the type it takes. *)
NextCallIs(call, type) ==
    /\ phase = "evaluating"
    /\ input # <<>> /\ Head(input) = call
    /\ lastResult.ret[1] = type
    /\ input' = Tail(input)
    /\ UNCHANGED <<phase, types, links, circuit, shadow>>

(* impl BitOr for Tristate *)
CallBitOr(rhs) ==
    /\ NextCallIs(<<"BitOr", rhs>>, "Tristate")
    /\ lastResult' = [call |-> <<"BitOr", lastResult.ret[2], rhs>>,
                      ret |-> <<"Tristate", BitOr(lastResult.ret[2], rhs)>>]

(* impl BitAnd for Tristate *)
CallBitAnd(rhs) ==
    /\ NextCallIs(<<"BitAnd", rhs>>, "Tristate")
    /\ lastResult' = [call |-> <<"BitAnd", lastResult.ret[2], rhs>>,
                      ret |-> <<"Tristate", BitAnd(lastResult.ret[2], rhs)>>]

(* impl BitXor for Tristate *)
CallBitXor(rhs) ==
    /\ NextCallIs(<<"BitXor", rhs>>, "Tristate")
    /\ lastResult' = [call |-> <<"BitXor", lastResult.ret[2], rhs>>,
                      ret |-> <<"Tristate", BitXor(lastResult.ret[2], rhs)>>]

(* impl Not for Tristate *)
CallNot ==
    /\ NextCallIs(<<"Not">>, "Tristate")
    /\ lastResult' = [call |-> <<"Not", lastResult.ret[2]>>,
                      ret |-> <<"Tristate", Not(lastResult.ret[2])>>]

(* impl Display for Tristate (to_string) *)
CallDisplay ==
    /\ NextCallIs(<<"Display">>, "Tristate")
    /\ lastResult' = [call |-> <<"Display", lastResult.ret[2]>>,
                      ret |-> <<"str", Display(lastResult.ret[2])>>]

(* impl FromStr for Tristate (str::parse) *)
CallFromStr ==
    /\ NextCallIs(<<"FromStr">>, "str")
    /\ lastResult' = [call |-> <<"FromStr", lastResult.ret[2]>>,
                      ret |-> IF FromStr(lastResult.ret[2]) = ParseError
                              THEN <<"Err", ParseError, lastResult.ret[2]>>
                              ELSE <<"Tristate", FromStr(lastResult.ret[2])>>]

NextTristate ==
    \/ \E rhs \in Tristate : CallBitOr(rhs)
    \/ \E rhs \in Tristate : CallBitAnd(rhs)
    \/ \E rhs \in Tristate : CallBitXor(rhs)
    \/ CallNot
    \/ CallDisplay
    \/ CallFromStr

SpecTristate == InitTristate /\ [][NextTristate]_vars

(***************************************************************************)
(* The evaluation observed one call at a time: build and simulate enter    *)
(* the loop over the components, each step runs the innermost call of      *)
(* circuit.stack up to its next call or its return, and the call of the    *)
(* circuit returns once the stack is empty.  While the evaluation runs     *)
(* nothing else can happen.                                                *)
(***************************************************************************)
MaxStepTick == 1

(* Gate 1 of a 4001 whose output feeds its own second input and an input  *)
(* of gate 2.                                                              *)
FeedsTwo ==
    <<Chipset("input", "in"), Chipset("4001", "ic"), Chipset("output", "out"),
      Link("in", 1, "ic", 1), Link("ic", 3, "ic", 2), Link("ic", 3, "ic", 5),
      Link("ic", 4, "out", 1)>>

(* A NOR gate between the constant false and its own output. *)
FalseSelfLoop ==
    <<Chipset("false", "f"), Chipset("4001", "ic"), Chipset("output", "out"),
      Link("f", 1, "ic", 1), Link("ic", 3, "ic", 2), Link("ic", 3, "out", 1)>>

StepPrograms ==
    {FanOut, OutputPair, GateSelfLoop, CrossCoupled, TwoChips, NorGate, FeedsTwo,
     FalseSelfLoop}

InitSteps == \E p \in StepPrograms : \E o \in Orders(p) : Start(p, o, NoOrder)

(* The circuit on entry of the loop over the components. *)
EnterAll(m, tick) ==
    [m EXCEPT !.runs = [c \in DOMAIN @ |-> 0], !.calls = 0, !.reentered = {},
              !.stack = <<[op |-> "components", names |-> m.order.comps,
                           tick |-> tick]>>]

(* CircuitBuilder::build enters its evaluation at tick 0 *)
BuildEnter ==
    /\ phase = "building"
    /\ input = <<>>
    /\ DOMAIN types # {}
    /\ circuit' = EnterAll([circuit EXCEPT !.current_tick = 0], 0)
    /\ phase' = "running"
    /\ UNCHANGED <<input, types, links, shadow, lastResult>>

(* Circuit::simulate increments current_tick and enters its evaluation *)
SimulateEnter ==
    /\ phase = "built"
    /\ circuit.current_tick < MaxStepTick
    /\ circuit' = EnterAll([circuit EXCEPT !.current_tick = @ + 1],
                           circuit.current_tick + 1)
    /\ phase' = "running"
    /\ UNCHANGED <<input, types, links, shadow, lastResult>>

(* the innermost call runs *)
EvalStep ==
    /\ phase = "running"
    /\ circuit.stack # <<>>
    /\ circuit' = Step(circuit)
    /\ UNCHANGED <<input, phase, types, links, shadow, lastResult>>

(* build or simulate returns *)
EvalReturn ==
    /\ phase = "running"
    /\ circuit.stack = <<>>
    /\ circuit' = Finish(circuit)
    /\ phase' = AfterCall(circuit')
    /\ lastResult' = Ok
    /\ UNCHANGED <<input, types, links, shadow>>

NextSteps ==
    \/ /\ input # <<>> /\ Head(input)[1] = "chipset"
       /\ AddComponent(Head(input)[2], Head(input)[3])
    \/ /\ input # <<>> /\ Head(input)[1] = "link"
       /\ LinkComponents(Head(input)[2], Head(input)[3], Head(input)[4],
                         Head(input)[5])
    \/ BuildEnter
    \/ SimulateEnter
    \/ EvalStep
    \/ EvalReturn
    \/ \E n \in {"in", "cl"}, v \in ValueTexts : SetValue(n, v)

SpecSteps == InitSteps /\ [][NextSteps]_vars

(***************************************************************************)
(* Links on pins that are not input pins: an input, a constant, an IC of   *)
(* every type and an output component; the output is linked to pin 7 or    *)
(* 14 of the IC, from either side, and one more link joins two pins of     *)
(* which at least one is an output pin, a pin without specification or     *)
(* the pin of the constant.                                                *)
(***************************************************************************)
MaxFloatTick == 1

FloatingBase(type) ==
    <<Chipset("input", "a"), Chipset("false", "f"), Chipset(type, "ic"),
      Chipset("output", "out"), Link("a", 1, "ic", 1)>>

FloatingReads ==
    {Link("ic", p, "out", 1) : p \in {7, 14}}
    \cup {Link("out", 1, "ic", p) : p \in {7, 14}}

OutputPinLinks ==
    {Link("a", 1, "ic", 7), Link("ic", 14, "f", 1), Link("ic", 7, "ic", 14),
     Link("ic", 4, "a", 1), Link("f", 1, "f", 1), Link("ic", 14, "ic", 5),
     Link("f", 1, "out", 1)}

FloatingPrograms ==
    {FloatingBase(t) \o <<r>> : t \in CompositeTypes, r \in FloatingReads}
    \cup {FloatingBase(t) \o <<r, l>> :
             t \in CompositeTypes, r \in FloatingReads, l \in OutputPinLinks}
    \cup {FloatingBase(t) \o <<l, r>> :
             t \in CompositeTypes, r \in FloatingReads, l \in OutputPinLinks}

InitFloating ==
    \E p \in FloatingPrograms : \E o \in LogicOrders(p) : Start(p, o, NoOrder)

NextFloating ==
    \/ /\ input # <<>> /\ Head(input)[1] = "chipset"
       /\ AddComponent(Head(input)[2], Head(input)[3])
    \/ /\ input # <<>> /\ Head(input)[1] = "link"
       /\ LinkComponents(Head(input)[2], Head(input)[3], Head(input)[4],
                         Head(input)[5])
    \/ Build
    \/ circuit.current_tick < MaxFloatTick /\ Simulate
    \/ \E v \in ValueTexts : SetValue("a", v)

SpecFloating == InitFloating /\ [][NextFloating]_vars

(***************************************************************************)
(* Input pins and their links: output components linked to each other, to  *)
(* nothing, to the gate of an IC whose inputs are unconnected, and to      *)
(* several drivers at once, the same endpoint linked once or twice.  Each  *)
(* circuit is run twice on the same calls, `circuit` under the order of    *)
(* declaration and `shadow` under any order of the components map, of the  *)
(* pins and of the link sets.                                              *)
(***************************************************************************)
MaxPinTick == 1

(* The input pins of two output components linked to each other. *)
OutputsLinked ==
    <<Chipset("output", "out"), Chipset("output", "o2"), Link("out", 1, "o2", 1)>>

OutputsLinkedTwice ==
    <<Chipset("output", "out"), Chipset("output", "o2"), Link("out", 1, "o2", 1),
      Link("o2", 1, "out", 1)>>

(* An output component linked to nothing, alone and beside an input. *)
LoneOutput == <<Chipset("output", "out")>>

OutputAside == <<Chipset("input", "a"), Chipset("output", "out")>>

(* The first gate of an IC with its input pins unconnected. *)
UnconnectedGate(type) ==
    <<Chipset(type, "ic"), Chipset("output", "out"),
      Link("ic", IF type = "4069" THEN 2 ELSE 3, "out", 1)>>

(* One output driven by two inputs and a clock; the first driver linked    *)
(* once, or a second time from either side.                                *)
ThreeDrivers(again) ==
    <<Chipset("input", "a"), Chipset("input", "b"), Chipset("clock", "cl"),
      Chipset("output", "out"),
      Link("a", 1, "out", 1), Link("out", 1, "b", 1), Link("cl", 1, "out", 1)>>
    \o again

(* An output whose input pin is driven by an input and read by a second  *)
(* output.                                                                 *)
OutputChain ==
    <<Chipset("input", "a"), Chipset("output", "out"), Chipset("output", "o2"),
      Link("a", 1, "out", 1), Link("out", 1, "o2", 1)>>

PinPrograms ==
    {OutputsLinked, OutputsLinkedTwice, LoneOutput, OutputAside, OutputChain}
    \cup {UnconnectedGate(t) : t \in CompositeTypes}
    \cup {ThreeDrivers(g) : g \in {<<>>, <<Link("a", 1, "out", 1)>>,
                                   <<Link("out", 1, "a", 1)>>}}

(* Every order of the components map, of the pins and of the links. *)
PinOrders(p) ==
    [comps : Perms(ChipsetNames(p)), pinsDesc : BOOLEAN, outputsDesc : {FALSE},
     linksDesc : BOOLEAN]

InitPins ==
    \E p \in PinPrograms : \E o2 \in PinOrders(p) : Start(p, DeclaredOrder(p), o2)

NextPins ==
    \/ /\ input # <<>> /\ Head(input)[1] = "chipset"
       /\ AddComponent(Head(input)[2], Head(input)[3])
    \/ /\ input # <<>> /\ Head(input)[1] = "link"
       /\ LinkComponents(Head(input)[2], Head(input)[3], Head(input)[4],
                         Head(input)[5])
    \/ Build
    \/ circuit.current_tick < MaxPinTick /\ Simulate
    \/ \E n \in {"a", "b", "cl"}, v \in ValueTexts : SetValue(n, v)

SpecPins == InitPins /\ [][NextPins]_vars


(***************************************************************************)
(* Circuits without feedback: no component is linked to itself and no      *)
(* chain of links leads from a component back to it.  Inputs, a clock and  *)
(* a constant drive one, two or three ICs in a row, the last one read by   *)
(* output components.  The four-component circuits are run under every     *)
(* order of the components map, of all_pins and of output_values; simulate *)
(* is called up to MaxChainTick times.                                     *)
(***************************************************************************)
MaxChainTick == 2

(* A NOR gate with both inputs on a, followed by an inverter. *)
ChainNorInv ==
    <<Chipset("input", "a"), Chipset("4001", "ic"), Chipset("4069", "inv"),
      Chipset("output", "out"),
      Link("a", 1, "ic", 1), Link("ic", 2, "a", 1), Link("ic", 3, "inv", 1),
      Link("out", 1, "inv", 2)>>

(* An AND gate fed by a directly and through an inverter. *)
ChainDiamond ==
    <<Chipset("input", "a"), Chipset("4069", "inv"), Chipset("4081", "ic"),
      Chipset("output", "out"),
      Link("a", 1, "inv", 1), Link("a", 1, "ic", 1), Link("ic", 2, "inv", 2),
      Link("ic", 3, "out", 1)>>

(* A XOR gate between a clock and an input. *)
ChainClockXor ==
    <<Chipset("clock", "cl"), Chipset("input", "a"), Chipset("4030", "ic"),
      Chipset("output", "out"),
      Link("cl", 1, "ic", 1), Link("a", 1, "ic", 2), Link("ic", 3, "out", 1)>>

(* The last NAND gate of a 4011 between the constant true and an input. *)
ChainConstant ==
    <<Chipset("output", "out"), Chipset("4011", "ic"), Chipset("true", "t"),
      Chipset("input", "a"),
      Link("ic", 12, "t", 1), Link("a", 1, "ic", 13), Link("ic", 11, "out", 1)>>

(* Two gates of one 4001 read by two outputs, one input of the first gate  *)
(* left unconnected.                                                       *)
ChainTwoOutputs ==
    <<Chipset("input", "a"), Chipset("4001", "ic"), Chipset("output", "out"),
      Chipset("output", "o2"),
      Link("a", 1, "ic", 1), Link("ic", 3, "out", 1), Link("a", 1, "ic", 5),
      Link("a", 1, "ic", 6), Link("ic", 4, "o2", 1)>>

(* Two gates of one 4001 combined by a gate of a second IC. *)
ChainTwoGates ==
    <<Chipset("input", "a"), Chipset("4001", "ic"), Chipset("4081", "g"),
      Chipset("output", "out"),
      Link("a", 1, "ic", 1), Link("a", 1, "ic", 2), Link("a", 1, "ic", 8),
      Link("ic", 10, "g", 2), Link("ic", 3, "g", 1), Link("g", 3, "out", 1)>>

(* Three ICs in a row, the first one also read by the third. *)
ChainThree ==
    <<Chipset("input", "a"), Chipset("4069", "inv"), Chipset("4001", "ic"),
      Chipset("4071", "g"), Chipset("output", "out"),
      Link("a", 1, "inv", 1), Link("inv", 2, "ic", 1), Link("a", 1, "ic", 2),
      Link("ic", 3, "g", 1), Link("inv", 2, "g", 2), Link("g", 3, "out", 1)>>

ChainPrograms ==
    {ChainNorInv, ChainDiamond, ChainClockXor, ChainConstant, ChainTwoOutputs,
     ChainTwoGates, ChainThree}

ChainOrders(p) ==
    [comps : IF Len(Declared(p)) <= 4 THEN Perms(ChipsetNames(p))
             ELSE {Declared(p), Reverse(Declared(p))},
     pinsDesc : BOOLEAN, outputsDesc : BOOLEAN, linksDesc : {FALSE}]

InitChain == \E p \in ChainPrograms : \E o \in ChainOrders(p) : Start(p, o, NoOrder)

NextChain ==
    \/ /\ input # <<>> /\ Head(input)[1] = "chipset"
       /\ AddComponent(Head(input)[2], Head(input)[3])
    \/ /\ input # <<>> /\ Head(input)[1] = "link"
       /\ LinkComponents(Head(input)[2], Head(input)[3], Head(input)[4],
                         Head(input)[5])
    \/ Build
    \/ circuit.current_tick < MaxChainTick /\ Simulate
    \/ \E n \in {"a", "cl"}, v \in ValueTexts : SetValue(n, v)

SpecChain == InitChain /\ [][NextChain]_vars

(***************************************************************************)
(* Parser::read as a whole (circuit/parser.rs): parse_lines on the text,   *)
(* then the builder called with the instruction of each line, then build.  *)
(***************************************************************************)

(* The string a sequence of characters spells. *)
RECURSIVE Spell(_)
Spell(word) == IF word = <<>> THEN "" ELSE word[1] \o Spell(Tail(word))

(* impl From<CircuitBuildError> for BuildErrorKind *)
BuildErrorKindFrom(err) ==
    CASE err[1] = "NoChipset" -> <<"NoChipset">>
      [] err[1] = "ComponentNameExists" -> <<"ComponentNameOverride", err[2]>>
      [] err[1] = "ComponentNameUnknown" -> <<"ComponentNameUnknown", err[2]>>
      [] err[1] = "ComponentTypeUnknown" -> <<"ComponentTypeUnknown", err[2]>>
      [] err[1] = "ComponentLinkIssue" ->
            <<"ComponentLinkIssue", err[2], err[3], err[4]>>

(* CircuitBuilder::default *)
NewBuilder == [types |-> EmptyMap, links |-> EmptyMap, circuit |-> NewCircuit(NoOrder)]

(* The loop `for line in lines.into_iter()` of Parser::read from the       *)
(* builder b, and the call of build after it.  AddComponentTo is the result*)
(* of builder.add_component(component_type, name) (builder.rs 58-80) and   *)
(* LinkComponentsIn that of builder.link_components (builder.rs 82-109).   *)
RECURSIVE ReadLinesFrom(_, _)
ReadLinesFrom(lines, b) ==
    LET AddComponentTo(type_str, name) ==
            LET type == TypeFromStr(type_str)
            IN  IF type = "InvalidValue"
                THEN <<"Err", <<"ComponentTypeUnknown", type_str>>>>
                ELSE IF name \in DOMAIN b.types
                THEN <<"Err", <<"ComponentNameExists", name>>>>
                ELSE <<"Ok", [types |-> b.types @@ (name :> type),
                              links |-> b.links @@ InternalLinks(name, type),
                              circuit |-> CreateComponent(b.circuit, name, type)]>>
        LinkComponentsIn(left, left_pin, right, right_pin) ==
            IF left \notin DOMAIN b.types
            THEN <<"Err", <<"ComponentNameUnknown", left>>>>
            ELSE IF right \notin DOMAIN b.types
            THEN <<"Err", <<"ComponentNameUnknown", right>>>>
            ELSE IF SetLinkResult(b.types[left], left_pin) # Ok
            THEN <<"Err", <<"ComponentLinkIssue", left, b.types[left], left_pin>>>>
            ELSE IF SetLinkResult(b.types[right], right_pin) # Ok
            THEN <<"Err", <<"ComponentLinkIssue", right, b.types[right], right_pin>>>>
            ELSE <<"Ok", [b EXCEPT !.links =
                              SetLink(SetLink(@, left, b.types[left], left_pin,
                                              right, right_pin),
                                      right, b.types[right], right_pin, left,
                                      left_pin)]>>
    IN  IF lines = <<>>
        THEN IF DOMAIN b.types = {}
             THEN <<"Build", 0, BuildErrorKindFrom(<<"NoChipset">>)>>
             ELSE <<"Ok", b>>
        ELSE LET line == Head(lines)
                 i == line.instruction
                 build_result ==
                     IF i.op = "AddComponent"
                     THEN AddComponentTo(Spell(i.component_type), Spell(i.name))
                     ELSE LinkComponentsIn(Spell(i.left_name), i.left_pin,
                                           Spell(i.right_name), i.right_pin)
             IN  IF build_result[1] = "Err"
                 THEN <<"Build", line.index, BuildErrorKindFrom(build_result[2])>>
                 ELSE ReadLinesFrom(Tail(lines), build_result[2])

(* Each line handed to the builder as soon as it is parsed: the text up    *)
(* to a line with a syntax error is built before the error is reported.    *)
ReadResultLineByLine(text) ==
    LET parsed == ParseLines(text)
        before == IF parsed[1] = "Err" /\ parsed[2] > 0
                  THEN ParseLines(SubSeq(text, 1, parsed[2] - 1))
                  ELSE parsed
        built == IF before[1] = "Ok" THEN ReadLinesFrom(before[2], NewBuilder)
                 ELSE <<"Ok", NewBuilder>>
    IN  IF parsed[1] = "Ok" THEN built
        ELSE IF built[1] = "Build" /\ built[2] # 0 THEN built
        ELSE <<"Syntax", parsed[2], parsed[3]>>

(* The result of Parser::read before the tick-0 evaluation of build. *)
ReadResult(text) ==
    LET parsed == ParseLines(text)
    IN  IF parsed[1] = "Err" THEN <<"Syntax", parsed[2], parsed[3]>>
        ELSE ReadLinesFrom(parsed[2], NewBuilder)

(* Parser::read up to the loop of build: `input` is the text.  With every  *)
(* line accepted and a component declared, the builder holds the circuit   *)
(* under some order of the components map, no line is left to handle, and  *)
(* Build, the one step left enabled, runs the tick-0 evaluation and        *)
(* returns the circuit.                                                    *)
ParserRead ==
    /\ phase = "parsing"
    /\ UNCHANGED shadow
    /\ LET r == ReadResult(input)
       IN  IF r[1] # "Ok"
           THEN /\ phase' = "failed"
                /\ lastResult' = r
                /\ UNCHANGED <<input, types, links, circuit>>
           ELSE /\ phase' = "building"
                /\ input' = <<>>
                /\ types' = r[2].types
                /\ links' = r[2].links
                /\ \E comps \in Perms(DOMAIN r[2].types) :
                       circuit' = [r[2].circuit EXCEPT !.order.comps = comps]
                /\ lastResult' = Ok

(* The lines of the texts read: the two headers, three chipset lines (the  *)
(* last of an unknown type) and two link lines (the last on a pin no       *)
(* component has).  A chipset line under .links: and a repeated header are *)
(* syntax errors; a link line under .chipsets: declares a component of an  *)
(* unknown type.                                                           *)
ReadLines ==
    {CHIPSET_DECLARATION,
     LINK_DECLARATION,
     <<"i", "n", "p", "u", "t", " ", "a">>,
     <<"o", "u", "t", "p", "u", "t", " ", "o">>,
     <<"n", "a", "n", "d", " ", "b">>,
     <<"a", ":", "1", " ", "o", ":", "1">>,
     <<"a", ":", "2", " ", "a", ":", "1">>}

MaxReadLines == 5

ReadTexts == UNION {[1..k -> ReadLines] : k \in 0..MaxReadLines}

InitRead ==
    /\ input \in ReadTexts
    /\ phase = "parsing"
    /\ types = EmptyMap
    /\ links = EmptyMap
    /\ circuit = NewCircuit(NoOrder)
    /\ shadow = NewCircuit(NoOrder)
    /\ lastResult = Ok

NextRead ==
    \/ ParserRead
    \/ Build

SpecRead == InitRead /\ [][NextRead]_vars
(***************************************************************************)
(* Properties                                                              *)
(***************************************************************************)

(* The number of PinLink entries of the circuit, over all input pins. *)
RECURSIVE LinkCountOf(_)
LinkCountOf(pins) ==
    IF pins = {} THEN 0
    ELSE LET p == CHOOSE x \in pins : TRUE
         IN  Cardinality(links[p]) + LinkCountOf(pins \ {p})

LinkCount == LinkCountOf(DOMAIN links)

(* C1: during one call of build or Circuit::simulate (one tick) the body   *)
(* of PinContainer::simulate runs at most once in every container: each   *)
(* top-level component and each gate inside a composite, whatever the     *)
(* links (cycles and self-links included), however many peers pull from   *)
(* the component and whatever the order of the components map.            *)
C1_SimulateBodyAtMostOncePerTick ==
    \A c \in DOMAIN circuit.runs : circuit.runs[c] <= 1

(* C1 witness: an input that two outputs and the circuit's own loop pull  *)
(* from, simulated after one of its readers, has run its body once.       *)
C1_Witness ==
    /\ phase = "built"
    /\ circuit.current_tick >= 1
    /\ DOMAIN types = {"in", "out", "o2"}
    /\ circuit.order.comps[1] # "in"
    /\ circuit.calls = 2
    /\ circuit.runs[<<"in", TOP>>] = 1

(* C2: the tick-0 evaluation of build and every Circuit::simulate return  *)
(* (within the step budget), and evaluate no more links than the circuit  *)
(* has, also when the links form a cycle across components, inside one IC,*)
(* from an output to itself or between two input pins.                    *)
C2_EvaluationTerminates ==
    /\ ~circuit.diverged
    /\ circuit.stack = <<>>
    /\ circuit.calls <= LinkCount

(* C2 witness: the cycle through a 4001 and a 4069 has been simulated. *)
C2_Witness ==
    /\ phase = "built"
    /\ circuit.current_tick >= 1
    /\ "inv" \in DOMAIN types
    /\ <<"inv", TOP, 2>> \in links[<<"ic", TOP, 2>>]
    /\ <<"ic", TOP, 3>> \in links[<<"inv", TOP, 1>>]
    /\ circuit.runs[<<"ic", 1>>] = 1
    /\ circuit.runs[<<"inv", 1>>] = 1

(* C3: once build has succeeded no call panics: no pin or container is    *)
(* found Computing at another tick, no link has lost its peer, no link    *)
(* names an invalid pin of its peer.                                      *)
C3_NoFatalState ==
    /\ phase # "aborted"
    /\ circuit.fatal = None

(* C3 witness: a built circuit with a cycle in an IC, a value staged by   *)
(* set_value after two simulates.                                         *)
C3_Witness ==
    /\ phase = "built"
    /\ circuit.current_tick = 2
    /\ "ic" \in DOMAIN types
    /\ <<"ic", TOP, 3>> \in links[<<"ic", TOP, 2>>]
    /\ circuit.value_for_next_tick["in"] = StateTrue

(* C4: for one circuit and one sequence of set_value and simulate calls,  *)
(* get_input and get_output return the same values whatever the order in  *)
(* which the components, the input pins and the output drivers are        *)
(* walked: the run under any order agrees with the run under the order of *)
(* declaration.                                                            *)
C4_SameValuesUnderEveryOrder ==
    phase = "built" =>
        \A n \in DOMAIN types :
            /\ GetInput(circuit, n) = GetInput(shadow, n)
            /\ GetOutput(circuit, n) = GetOutput(shadow, n)

(* The output components whose one link is pin 1 of component `name`. *)
ReadersOf(name) ==
    {o \in DOMAIN types :
        types[o] = "output" /\ links[<<o, TOP, 1>>] = {<<name, TOP, 1>>}}

(* A step of Circuit::simulate. *)
IsSimulateStep ==
    phase = "built" /\ circuit'.current_tick = circuit.current_tick + 1

(* C5: a simulate makes the text staged by set_value on an input the      *)
(* value of get_input, and of get_output of an output linked to it, for   *)
(* each of 0, 1 and U; with nothing staged both keep their value.         *)
C5_InputReachesOutput ==
    [][IsSimulateStep =>
          \A n \in DOMAIN types : types[n] = "input" =>
              \A t \in ValueTexts :
                  (\/ circuit.value_for_next_tick[n] = FromStr(t)
                   \/ /\ circuit.value_for_next_tick[n] = None
                      /\ GetInput(circuit, n) = t)
                  => /\ GetInput(circuit', n) = t
                     /\ \A o \in ReadersOf(n) : GetOutput(circuit', o) = t]_vars

(* C5 witness: after set_value(in, 1), a simulate and one more simulate   *)
(* the input and its output read 1.                                       *)
C5_Witness ==
    /\ phase = "built"
    /\ DOMAIN types = {"in", "out"}
    /\ circuit.current_tick = 2
    /\ circuit.value_for_next_tick["in"] = None
    /\ GetInput(circuit, "in") = "1"
    /\ GetOutput(circuit, "out") = "1"

(* C6: a successful set_value stages the parsed value and nothing else:   *)
(* the tick and every get_input and get_output value are as before.       *)
C6_SetValueDoesNotSimulate ==
    [][\A n \in Names, t \in Texts :
          SetValue(n, t) /\ lastResult' = Ok =>
              /\ circuit'.current_tick = circuit.current_tick
              /\ circuit'.value_for_next_tick[n] = FromStr(t)
              /\ \A x \in DOMAIN types :
                     /\ GetInput(circuit', x) = GetInput(circuit, x)
                     /\ GetOutput(circuit', x) = GetOutput(circuit, x)]_vars

(* C6 witness: 0 is staged on a clock that reads 1, as does its output.   *)
C6_Witness ==
    /\ phase = "built"
    /\ "cl" \in DOMAIN types
    /\ circuit.value_for_next_tick["cl"] = StateFalse
    /\ GetInput(circuit, "cl") = "1"
    /\ \E o \in ReadersOf("cl") : GetOutput(circuit, o) = "1"

PeersOfType(o, type) ==
    {l \in links[<<o, TOP, 1>>] : l[1] \in DOMAIN types /\ types[l[1]] = type}

(* C8: in every state of a built circuit, from the build on, an output    *)
(* with a link to a `true` component reads 1 and an output whose links    *)
(* all go to `false` components reads 0.                                  *)
C8_ConstantsReadThrough ==
    phase = "built" =>
        \A o \in DOMAIN types : types[o] = "output" =>
            /\ PeersOfType(o, "true") # {} => GetOutput(circuit, o) = "1"
            /\ (PeersOfType(o, "false") # {}
                /\ PeersOfType(o, "false") = links[<<o, TOP, 1>>])
                   => GetOutput(circuit, o) = "0"

(* C8 witness: right after build, and with a value staged on the clock    *)
(* beside them, the two outputs read 1 and 0.                             *)
C8_Witness ==
    /\ phase = "built"
    /\ circuit.current_tick = 0
    /\ DOMAIN types = {"t", "f", "cl", "out", "o2", "o3"}
    /\ circuit.value_for_next_tick["cl"] = StateFalse
    /\ GetOutput(circuit, "out") = "1"
    /\ GetOutput(circuit, "o2") = "0"

(* The text of the inverted value. *)
Inverted(text) ==
    CASE text = "0" -> "1"
      [] text = "1" -> "0"
      [] OTHER -> "U"

(* C9: build leaves a clock at U; a simulate with nothing staged on the   *)
(* clock inverts it once (0 to 1, 1 to 0, U stays U), and an output       *)
(* linked to the clock reads the same value.                              *)
C9_ClockInverts ==
    [][/\ (phase = "building" /\ phase' = "built") =>
              \A n \in DOMAIN types : types[n] = "clock" =>
                  GetInput(circuit', n) = "U"
       /\ IsSimulateStep =>
              \A n \in DOMAIN types :
                  (types[n] = "clock" /\ circuit.value_for_next_tick[n] = None) =>
                      /\ GetInput(circuit', n) = Inverted(GetInput(circuit, n))
                      /\ \A o \in ReadersOf(n) :
                             GetOutput(circuit', o) = GetInput(circuit', n)]_vars

(* C9 witness: a clock set to 0 reads 1 two simulates later, with its     *)
(* output.                                                                 *)
C9_Witness ==
    /\ phase = "built"
    /\ DOMAIN types = {"cl", "out"}
    /\ circuit.current_tick = 3
    /\ circuit.value_for_next_tick["cl"] = None
    /\ GetInput(circuit, "cl") = "1"
    /\ GetOutput(circuit, "out") = "1"

(* C10: a simulate makes the text staged on a clock its value, for each   *)
(* of 0, 1 and U, and takes the staged value away, so that the simulate   *)
(* after it inverts the new value.                                        *)
C10_StagedClockValueWins ==
    [][IsSimulateStep =>
          \A n \in DOMAIN types : types[n] = "clock" =>
              /\ circuit'.value_for_next_tick[n] = None
              /\ \A t \in ValueTexts :
                     circuit.value_for_next_tick[n] = FromStr(t) =>
                         /\ GetInput(circuit', n) = t
                         /\ \A o \in ReadersOf(n) : GetOutput(circuit', o) = t
              /\ circuit.value_for_next_tick[n] = None =>
                     GetInput(circuit', n) = Inverted(GetInput(circuit, n))]_vars

(* C10 witness: the first simulate after build has made the staged 0 the  *)
(* value of the clock, which without it would still be U.                 *)
C10_Witness ==
    /\ phase = "built"
    /\ DOMAIN types = {"cl", "out"}
    /\ circuit.current_tick = 1
    /\ circuit.value_for_next_tick["cl"] = None
    /\ GetInput(circuit, "cl") = "0"
    /\ GetOutput(circuit, "out") = "0"

(* C11: in the 4011 wired as NAND(NAND(NAND(a,b),a), NAND(NAND(a,b),b)),  *)
(* whenever the two inputs read 0 or 1 after a simulate the output reads  *)
(* a XOR b: 1 when they differ, 0 when they are equal.                    *)
C11_NandXor ==
    (/\ phase = "built"
     /\ "ic" \in DOMAIN types /\ types["ic"] = "4011"
     /\ GetInput(circuit, "a") \in {"0", "1"}
     /\ GetInput(circuit, "b") \in {"0", "1"})
        => GetOutput(circuit, "out")
               = (IF GetInput(circuit, "a") = GetInput(circuit, "b")
                  THEN "0" ELSE "1")

(* C12: in the SR latch, a simulate with s = 0 and r = 0 that follows a   *)
(* simulate with s = 1 and r = 0 leaves q at 1 and nq at 0, and one that  *)
(* follows a simulate with s = 0 and r = 1 leaves q at 0 and nq at 1.     *)
C12_LatchHolds ==
    [][(/\ IsSimulateStep
        /\ DOMAIN types = {"s", "r", "ic", "q", "nq"}
        /\ GetInput(circuit', "s") = "0"
        /\ GetInput(circuit', "r") = "0")
          => /\ (GetInput(circuit, "s") = "1" /\ GetInput(circuit, "r") = "0")
                    => /\ GetOutput(circuit', "q") = "1"
                       /\ GetOutput(circuit', "nq") = "0"
             /\ (GetInput(circuit, "s") = "0" /\ GetInput(circuit, "r") = "1")
                    => /\ GetOutput(circuit', "q") = "0"
                       /\ GetOutput(circuit', "nq") = "1"]_vars

(* C12 witness: two simulates after build the latch holds q = 1 with both *)
(* inputs back at 0.                                                      *)
C12_Witness ==
    /\ phase = "built"
    /\ DOMAIN types = {"s", "r", "ic", "q", "nq"}
    /\ circuit.current_tick = 2
    /\ GetInput(circuit, "s") = "0"
    /\ GetInput(circuit, "r") = "0"
    /\ GetOutput(circuit, "q") = "1"
    /\ GetOutput(circuit, "nq") = "0"

IsEvaluation ==
    \/ phase = "building" /\ phase' = "built"
    \/ IsSimulateStep

C15_TickCounter ==
    [][LET SimulatedAt(m, tick) ==
               \A c \in DOMAIN m.state : c[2] = TOP => m.state[c] = Available(tick)
       IN  /\ (phase = "building" /\ phase' = "built") =>
                  /\ circuit'.current_tick = 0
                  /\ SimulatedAt(circuit', 0)
           /\ (phase = "built" /\ circuit'.state # circuit.state) =>
                  /\ circuit'.current_tick = circuit.current_tick + 1
                  /\ SimulatedAt(circuit', circuit.current_tick + 1)
           /\ (phase = "built" /\ circuit'.state = circuit.state) =>
                  circuit'.current_tick = circuit.current_tick]_vars

(* C15 witness: after two simulates of the cross-component cycle the      *)
(* counter is 2 and both ICs were simulated at tick 2.                    *)
C15_Witness ==
    /\ phase = "built"
    /\ "inv" \in DOMAIN types
    /\ circuit.current_tick = 2
    /\ circuit.state[<<"ic", TOP>>] = Available(2)
    /\ circuit.state[<<"inv", TOP>>] = Available(2)

(* A step of the builder that consumes a link instruction, and one that   *)
(* consumes a chipset instruction.                                        *)
IsLinkStep ==
    /\ phase = "building" /\ input # <<>> /\ Head(input)[1] = "link"
    /\ input' = Tail(input)

IsChipsetStep ==
    /\ phase = "building" /\ input # <<>> /\ Head(input)[1] = "chipset"
    /\ input' = Tail(input)

(* C16, as stated: after link_components(a, pa, b, pb) succeeds, pin pa   *)
(* of a holds a link to (b, pb) and pin pb of b holds a link to (a, pa).  *)
C16_BothEndsRecordLink ==
    [][IsLinkStep /\ lastResult' = Ok =>
         LET i == Head(input)
             Holds(n, p, on, op) ==
                 /\ <<n, TOP, p>> \in DOMAIN links'
                 /\ <<on, TOP, op>> \in links'[<<n, TOP, p>>]
         IN  /\ Holds(i[2], i[3], i[4], i[5])
             /\ Holds(i[4], i[5], i[2], i[3])]_vars

(* C16, amended: after link_components(a, pa, b, pb) succeeds, each end   *)
(* that is an input pin of its component has added the other end to its   *)
(* links, an end that is an output pin (or the pin of a constant) holds   *)
(* no link, and no other pin's links have changed.                        *)
C16_InputEndsRecordLink ==
    [][IsLinkStep /\ lastResult' = Ok =>
         LET i == Head(input)
             l == <<i[2], TOP, i[3]>>
             r == <<i[4], TOP, i[5]>>
             IsInput(e) == e[3] \in InputPins(types[e[1]])
             Added(k) == (IF k = l /\ IsInput(l) THEN {r} ELSE {})
                         \cup (IF k = r /\ IsInput(r) THEN {l} ELSE {})
         IN  /\ DOMAIN links' = DOMAIN links
             /\ \A k \in DOMAIN links : links'[k] = links[k] \cup Added(k)
             /\ \A e \in {l, r} : IsInput(e) <=> e \in DOMAIN links']_vars

C16_Witness ==
    /\ phase = "building" /\ input = <<>> /\ lastResult = Ok
    /\ DOMAIN types = {"a", "b"}
    /\ types["a"] = "input" /\ types["b"] = "output"
    /\ links[<<"b", TOP, 1>>] = {<<"a", TOP, 1>>}

(* C17: link_components on two registered components fails with           *)
(* ComponentLinkIssue(name, type, pin) whenever a pin number is outside    *)
(* 1..N of its component, pin 0 and pin N+1 included: it names the left    *)
(* component when the left pin is invalid, the right component when only   *)
(* the right pin is; and a builder on which a call failed builds nothing.  *)
C17_InvalidPinIsLinkIssue ==
    [][/\ (/\ IsLinkStep
            /\ Head(input)[2] \in DOMAIN types
            /\ Head(input)[4] \in DOMAIN types) =>
               LET i == Head(input)
                   N(name) == IF types[name] \in CompositeTypes THEN 14 ELSE 1
                   Valid(name, pin) == pin \in 1..N(name)
                   Issue(name, pin) ==
                       <<"ComponentLinkIssue", name, types[name], pin>>
               IN  /\ ~Valid(i[2], i[3]) =>
                          phase' = "failed" /\ lastResult' = Issue(i[2], i[3])
                   /\ Valid(i[2], i[3]) /\ ~Valid(i[4], i[5]) =>
                          phase' = "failed" /\ lastResult' = Issue(i[4], i[5])
       /\ phase = "failed" => phase' = "failed"]_vars

C17_Witness ==
    /\ phase = "failed"
    /\ DOMAIN types = {"a", "b"}
    /\ types["a"] = "output" /\ types["b"] = "4001"
    /\ lastResult = <<"ComponentLinkIssue", "b", "4001", 15>>

(* C18: add_component with a type string outside the catalog fails with   *)
(* ComponentTypeUnknown; with a catalog type and a name already            *)
(* registered, whatever the two types, with ComponentNameExists;           *)
(* link_components naming an unregistered component fails with            *)
(* ComponentNameUnknown of that name, the left one first; build with no    *)
(* component fails with NoChipset; and a successful build holds exactly    *)
(* the components added, once each, under their names and types.           *)
C18_BuildProtocol ==
    [][LET Catalog == {"input", "output", "clock", "true", "false", "4001",
                       "4011", "4030", "4069", "4071", "4081"}
           i == Head(input)
           Fails(err) == phase' = "failed" /\ lastResult' = err
       IN  /\ IsChipsetStep =>
                 /\ i[2] \notin Catalog => Fails(<<"ComponentTypeUnknown", i[2]>>)
                 /\ i[2] \in Catalog /\ i[3] \in DOMAIN types =>
                        Fails(<<"ComponentNameExists", i[3]>>)
                 /\ i[2] \in Catalog /\ i[3] \notin DOMAIN types =>
                        /\ phase' = "building" /\ lastResult' = Ok
                        /\ DOMAIN types' = DOMAIN types \cup {i[3]}
                        /\ types'[i[3]] = i[2]
                        /\ \A n \in DOMAIN types : types'[n] = types[n]
           /\ IsLinkStep =>
                 /\ types' = types
                 /\ i[2] \notin DOMAIN types =>
                        Fails(<<"ComponentNameUnknown", i[2]>>)
                 /\ i[2] \in DOMAIN types /\ i[4] \notin DOMAIN types =>
                        Fails(<<"ComponentNameUnknown", i[4]>>)
           /\ (phase = "building" /\ input = <<>> /\ phase' # "building") =>
                 /\ types' = types
                 /\ DOMAIN types = {} => Fails(<<"NoChipset">>)
                 /\ DOMAIN types # {} =>
                        LET comps == circuit'.order.comps
                        IN  /\ phase' = "built" /\ lastResult' = Ok
                            /\ {comps[k] : k \in DOMAIN comps} = DOMAIN types
                            /\ Len(comps) = Cardinality(DOMAIN types)
                            /\ {c[1] : c \in DOMAIN circuit'.state} \subseteq DOMAIN types
                            /\ \A n \in DOMAIN types :
                                   types[n] \notin ConstTypes =>
                                       circuit'.state[<<n, TOP>>] = Available(0)]_vars

C18_Witness ==
    /\ phase = "built" /\ circuit.current_tick = 0
    /\ DOMAIN types = {"a", "b"}
    /\ types["a"] = "4001" /\ types["b"] = "false"
    /\ circuit.order.comps = <<"b", "a">>
    /\ circuit.state[<<"a", TOP>>] = Available(0)

(* C19: parsing fails with Syntax FirstDeclarationMismatch, carrying the   *)
(* 1-based number of the line, when the first line that is neither blank   *)
(* nor a comment is anything but the chipsets header: the links header or  *)
(* an instruction line.  A line is blank or a comment when every character *)
(* that is not white space stands at or after a '#'.                       *)
C19_FirstDeclarationMismatch ==
    [][phase = "parsing" /\ phase' # "parsing" =>
         LET Blank(line) ==
                 \A k \in DOMAIN line :
                     line[k] \in WhiteSpace \/ \E j \in 1..k : line[j] = "#"
             significant == {k \in DOMAIN input : ~Blank(input[k])}
             first == CHOOSE k \in significant : \A h \in significant : k <= h
         IN  (/\ significant # {}
              /\ Trim(StripComment(input[first])) # CHIPSET_DECLARATION) =>
                 /\ phase' = "failed"
                 /\ lastResult' = <<"Syntax", first, <<"FirstDeclarationMismatch">>>>]_vars

C19_Witness ==
    /\ phase = "failed"
    /\ Len(input) = 3
    /\ input[1] = <<"#">> \o LINK_DECLARATION
    /\ input[2] = <<"\t">> \o LINK_DECLARATION \o <<" ", "#">>
    /\ input[3] = CHIPSET_DECLARATION
    /\ lastResult = <<"Syntax", 2, <<"FirstDeclarationMismatch">>>>

(* C20: a text in which a section header appears a second time is never    *)
(* accepted, and when the lines before the second occurrence are accepted  *)
(* the error is Syntax DeclarationDuplicate of that header at that line;   *)
(* in every accepted text each header appears at most once, the chipsets   *)
(* header first, and every chipset line precedes every link line.          *)
C20_DeclarationDuplicate ==
    [][phase = "parsing" /\ phase' # "parsing" =>
         LET Content(k) == Trim(StripComment(input[k]))
             Headers(h) == {k \in DOMAIN input : Content(k) = h}
             second == {k \in DOMAIN input :
                           /\ Content(k) \in {CHIPSET_DECLARATION, LINK_DECLARATION}
                           /\ \E j \in 1..(k - 1) : Content(j) = Content(k)}
             line == CHOOSE k \in second : \A h \in second : k <= h
             out == lastResult'[2]
         IN  /\ second # {} =>
                    /\ phase' = "failed"
                    /\ ParseLines(SubSeq(input, 1, line - 1))[1] = "Ok" =>
                           lastResult' = <<"Syntax", line,
                                           <<"DeclarationDuplicate", Content(line)>>>>
             /\ phase' = "parsed" =>
                    /\ Cardinality(Headers(CHIPSET_DECLARATION)) <= 1
                    /\ Cardinality(Headers(LINK_DECLARATION)) <= 1
                    /\ \A c \in Headers(CHIPSET_DECLARATION) :
                           \A k \in DOMAIN input :
                               k < c => Content(k) = <<>>
                    /\ \A a, b \in DOMAIN out :
                           (/\ out[a].instruction.op = "AddComponent"
                            /\ out[b].instruction.op = "LinkComponents") =>
                               /\ a < b
                               /\ out[a].index < out[b].index
                               /\ \E l \in Headers(LINK_DECLARATION) :
                                      out[a].index < l /\ l < out[b].index]_vars

C20_Witness ==
    /\ phase = "failed"
    /\ input = <<CHIPSET_DECLARATION, <<"i", " ", "a">>,
                 <<"\t">> \o LINK_DECLARATION \o <<" ", "#">>, LINK_DECLARATION>>
    /\ lastResult = <<"Syntax", 4, <<"DeclarationDuplicate", LINK_DECLARATION>>>>

(* C21, as stated: parsing a text that holds no section header at all      *)
(* fails with Syntax Empty.                                                *)
C21_NoHeaderIsEmpty ==
    [][phase = "parsing" /\ phase' # "parsing" =>
         LET headers == {k \in DOMAIN input :
                            Trim(StripComment(input[k]))
                                \in {CHIPSET_DECLARATION, LINK_DECLARATION}}
         IN  headers = {} =>
                 /\ phase' = "failed"
                 /\ lastResult'[1] = "Syntax" /\ lastResult'[3] = <<"Empty">>]_vars

(* C21, amended: parsing fails with Syntax Empty, at line 0, exactly when  *)
(* the text holds nothing but blank lines and comments (no line at all     *)
(* included); a text without header that holds an instruction line fails   *)
(* with FirstDeclarationMismatch at the first such line.                   *)
C21_NoInstructionIsEmpty ==
    [][phase = "parsing" /\ phase' # "parsing" =>
         LET Blank(line) ==
                 \A k \in DOMAIN line :
                     line[k] \in WhiteSpace \/ \E j \in 1..k : line[j] = "#"
             significant == {k \in DOMAIN input : ~Blank(input[k])}
         IN  /\ significant = {} <=> lastResult' = <<"Syntax", 0, <<"Empty">>>>
             /\ significant = {} => phase' = "failed"
             /\ significant # {} =>
                    /\ ~(lastResult'[1] = "Syntax" /\ lastResult'[3] = <<"Empty">>)
                    /\ (\A k \in significant :
                            Trim(StripComment(input[k]))
                                \notin {CHIPSET_DECLARATION, LINK_DECLARATION}) =>
                           /\ phase' = "failed"
                           /\ lastResult'[2] \in significant
                           /\ \A k \in significant : lastResult'[2] <= k
                           /\ lastResult'[3] = <<"FirstDeclarationMismatch">>]_vars

C21_Witness ==
    /\ phase = "failed"
    /\ input = << <<>>, <<"#">> \o LINK_DECLARATION, <<>> >>
    /\ lastResult = <<"Syntax", 0, <<"Empty">>>>

(* C22: with the inputs of one gate of an IC driven by input components    *)
(* and its output read by an output component, after a simulate the        *)
(* output shows the gate's three-valued operation (NOR for the 4001, NAND  *)
(* for the 4011, XOR for the 4030, OR for the 4071, AND for the 4081, NOT  *)
(* for the 4069) of the values the inputs show, for every gate of the IC   *)
(* and every value in 0, 1, U, whatever the other gates are linked to.     *)
C22_GateOperation ==
    [][(IsSimulateStep /\ "ic" \in DOMAIN types /\ "out" \in DOMAIN types) =>
         LET RefNot(x) == CASE x = "0" -> "1" [] x = "1" -> "0" [] OTHER -> "U"
             RefAnd(x, y) == IF "0" \in {x, y} THEN "0"
                             ELSE IF "U" \in {x, y} THEN "U" ELSE "1"
             RefOr(x, y) == IF "1" \in {x, y} THEN "1"
                            ELSE IF "U" \in {x, y} THEN "U" ELSE "0"
             RefXor(x, y) == IF "U" \in {x, y} THEN "U"
                             ELSE IF x = y THEN "0" ELSE "1"
             a == GetInput(circuit', "a")
             b == GetInput(circuit', "b")
             expected ==
                 CASE types["ic"] = "4001" -> RefNot(RefOr(a, b))
                   [] types["ic"] = "4011" -> RefNot(RefAnd(a, b))
                   [] types["ic"] = "4030" -> RefXor(a, b)
                   [] types["ic"] = "4071" -> RefOr(a, b)
                   [] types["ic"] = "4081" -> RefAnd(a, b)
                   [] types["ic"] = "4069" -> RefNot(a)
         IN  /\ a \in {"0", "1", "U"}
             /\ GetOutput(circuit', "out") = expected]_vars

C22_Witness ==
    /\ phase = "built" /\ circuit.current_tick = 1
    /\ "ic" \in DOMAIN types /\ types["ic"] = "4011"
    /\ links[<<"ic", TOP, 8>>] = {<<"a", TOP, 1>>}
    /\ links[<<"ic", TOP, 9>>] = {<<"b", TOP, 1>>}
    /\ links[<<"out", TOP, 1>>] = {<<"ic", TOP, 10>>}
    /\ GetInput(circuit, "a") = "0" /\ GetInput(circuit, "b") = "U"
    /\ GetOutput(circuit, "out") = "1"

(* C23: for all 9 pairs of operands, AND is LOW if an operand is LOW, else *)
(* UNDEF if an operand is UNDEF, else HIGH; OR is HIGH if an operand is    *)
(* HIGH, else UNDEF if an operand is UNDEF, else LOW.                      *)
C23_AndOrTables ==
    LET LOW == "State(false)"
        HIGH == "State(true)"
        UNDEF == "Undefined"
        c == lastResult.call
    IN  phase = "evaluating" /\ c # <<>> =>
            /\ c[1] = "BitAnd" =>
                   lastResult.ret = <<"Tristate",
                                      IF LOW \in {c[2], c[3]} THEN LOW
                                      ELSE IF UNDEF \in {c[2], c[3]} THEN UNDEF
                                      ELSE HIGH>>
            /\ c[1] = "BitOr" =>
                   lastResult.ret = <<"Tristate",
                                      IF HIGH \in {c[2], c[3]} THEN HIGH
                                      ELSE IF UNDEF \in {c[2], c[3]} THEN UNDEF
                                      ELSE LOW>>

C23_Witness ==
    /\ phase = "evaluating"
    /\ lastResult.call = <<"BitAnd", "Undefined", "State(false)">>
    /\ lastResult.ret = <<"Tristate", "State(false)">>

(* C24: XOR is UNDEF when an operand is UNDEF and the boolean XOR          *)
(* otherwise; NOT flips LOW and HIGH and keeps UNDEF, and NOT called on    *)
(* the result of NOT gives back the first operand.                         *)
C24_XorNotTables ==
    [][LET LOW == "State(false)"
           HIGH == "State(true)"
           UNDEF == "Undefined"
           c == lastResult'.call
       IN  (phase = "evaluating" /\ c # <<>>) =>
               /\ c[1] = "BitXor" =>
                      lastResult'.ret = <<"Tristate",
                                          IF UNDEF \in {c[2], c[3]} THEN UNDEF
                                          ELSE IF c[2] = c[3] THEN LOW ELSE HIGH>>
               /\ c[1] = "Not" =>
                      /\ lastResult'.ret = <<"Tristate",
                                              CASE c[2] = LOW -> HIGH
                                                [] c[2] = HIGH -> LOW
                                                [] c[2] = UNDEF -> UNDEF>>
                      /\ (lastResult.call # <<>> /\ lastResult.call[1] = "Not") =>
                             lastResult'.ret = <<"Tristate", lastResult.call[2]>>]_vars

C24_Witness ==
    /\ phase = "evaluating" /\ input = <<>>
    /\ lastResult.call = <<"BitXor", "State(true)", "State(true)">>
    /\ lastResult.ret = <<"Tristate", "State(false)">>

(* C25: from_str on the text Display gives for a value returns that value  *)
(* (0, 1, U for LOW, HIGH, UNDEF, three different texts); from_str on any  *)
(* other text fails.                                                       *)
C25_ParseDisplayRoundTrip ==
    [][LET LOW == "State(false)"
           HIGH == "State(true)"
           UNDEF == "Undefined"
           c == lastResult'.call
       IN  (phase = "evaluating" /\ c # <<>>) =>
               /\ c[1] = "Display" =>
                      lastResult'.ret = <<"str", CASE c[2] = LOW -> "0"
                                                   [] c[2] = HIGH -> "1"
                                                   [] c[2] = UNDEF -> "U">>
               /\ c[1] = "FromStr" =>
                      /\ c[2] = "0" => lastResult'.ret = <<"Tristate", LOW>>
                      /\ c[2] = "1" => lastResult'.ret = <<"Tristate", HIGH>>
                      /\ c[2] = "U" => lastResult'.ret = <<"Tristate", UNDEF>>
                      /\ c[2] \notin {"0", "1", "U"} => lastResult'.ret[1] = "Err"
                      /\ (lastResult.call # <<>> /\ lastResult.call[1] = "Display") =>
                             lastResult'.ret = <<"Tristate", lastResult.call[2]>>]_vars

C25_Witness ==
    /\ phase = "evaluating" /\ input = <<>>
    /\ lastResult.call = <<"FromStr", "U">>
    /\ lastResult.ret = <<"Tristate", "Undefined">>

(* C26: simulate(t) on an input pin that is Available(t) or Computing(t)   *)
(* returns at once: no call is made and nothing of the circuit changes.    *)
(* A pin that is Available(t) keeps its aggregate and its state for the    *)
(* rest of tick t, and a pin that is Computing(t) keeps its aggregate      *)
(* until it becomes Available(t): the aggregate is recomputed at most once *)
(* per tick and every later reader of the tick sees the same value.        *)
C26_MemoizedPinSimulate ==
    [][(phase = "running" /\ circuit.stack # <<>>) =>
           LET f == Head(circuit.stack)
               t == circuit.current_tick
           IN  /\ (/\ f.op = "InputPin::simulate"
                   /\ circuit.input_state[f.pin]
                          \in {Available(f.tick), Computing(f.tick)})
                      => circuit' = [circuit EXCEPT !.stack = Tail(@)]
               /\ \A p \in DOMAIN circuit.input_state :
                      /\ circuit.input_state[p] = Available(t) =>
                             /\ circuit'.input_state[p] = Available(t)
                             /\ circuit'.input_value[p] = circuit.input_value[p]
                      /\ circuit.input_state[p] = Computing(t) =>
                             \/ /\ circuit'.input_state[p] = Computing(t)
                                /\ circuit'.input_value[p] = circuit.input_value[p]
                             \/ circuit'.input_state[p] = Available(t)]_vars

C26_Witness ==
    /\ phase = "running" /\ circuit.current_tick = 1 /\ circuit.stack # <<>>
    /\ Head(circuit.stack).op = "InputPin::simulate"
    /\ Head(circuit.stack).tick = 1
    /\ circuit.input_state[Head(circuit.stack).pin] = Available(1)
    /\ circuit.calls > 1

(* C27: compute_input on an input pin that has never been computed returns *)
(* LOW: during build (tick 0, before which no pin was computed) a read of  *)
(* the aggregate of a pin that is NeverComputed or still Computing(0)      *)
(* obtains State(false).                                                   *)
C27_NeverComputedReadsLow ==
    [][(phase = "running" /\ circuit.stack # <<>> /\ circuit.current_tick = 0) =>
           LET f == Head(circuit.stack)
           IN  (/\ f.op = "InputPin::compute_input"
                /\ circuit.input_state[f.pin] \in {NeverComputed, Computing(0)})
                   => circuit'.ret = FromBool(FALSE)]_vars

(* The read of an Automatic output pin of a composite that is Computing:   *)
(* Component::compute is about to run on it.                               *)
ForcedRead(m) ==
    /\ m.stack # <<>>
    /\ Head(m.stack).op = "Component::compute"
    /\ Head(m.stack).c[2] = TOP
    /\ types[Head(m.stack).c[1]] \in CompositeTypes
    /\ m.state[Head(m.stack).c][1] = "Computing"
    /\ Head(m.stack).pin \in OutputPins(types[Head(m.stack).c[1]])

(* The output pin of the gate that drives output pin `pin` of `name`. *)
DriverOf(name, pin) == CHOOSE l \in links[<<name, AUTO, pin>>] : TRUE

IsOutputEnd(name, pin) ==
    CASE types[name] \in {"true", "false", "input", "clock"} -> pin = 1
      [] types[name] = "4069" -> pin \in {2, 4, 6, 8, 10, 12, 7, 14}
      [] types[name] \in {"4001", "4011", "4030", "4071", "4081"} ->
             pin \in {3, 4, 10, 11, 7, 14}
      [] OTHER -> FALSE

(* C29: set_link on a valid output pin (Manual or Automatic output, pin    *)
(* without specification, pin of a constant) returns Ok and records        *)
(* nothing.  A link_components call whose two ends are such pins leaves    *)
(* the builder as it was, so whatever is built and simulated afterwards is *)
(* what it would have been without the call; when only one end is such a   *)
(* pin, the call does what set_link on the other end alone does.           *)
C29_OutputPinLinkIsNoOp ==
    [][(/\ IsLinkStep
        /\ Head(input)[2] \in DOMAIN types
        /\ Head(input)[4] \in DOMAIN types) =>
           LET i == Head(input)
               l == <<i[2], TOP, i[3]>>
               r == <<i[4], TOP, i[5]>>
               OutL == IsOutputEnd(i[2], i[3])
               OutR == IsOutputEnd(i[4], i[5])
           IN  /\ (OutL /\ OutR) =>
                      /\ lastResult' = Ok /\ phase' = phase
                      /\ links' = links /\ circuit' = circuit /\ types' = types
               /\ (OutL /\ ~OutR /\ lastResult' = Ok) =>
                      /\ links' = [links EXCEPT ![r] = @ \cup {l}]
                      /\ circuit' = circuit
               /\ (OutR /\ ~OutL /\ lastResult' = Ok) =>
                      /\ links' = [links EXCEPT ![l] = @ \cup {r}]
                      /\ circuit' = circuit
               /\ OutL => l \notin DOMAIN links'
               /\ OutR => r \notin DOMAIN links']_vars

C29_Witness ==
    /\ phase = "built" /\ circuit.current_tick = 1
    /\ DOMAIN types = {"a", "f", "ic", "out"} /\ types["ic"] = "4001"
    /\ \A k \in DOMAIN links : k[1] = "ic" /\ k[2] = TOP =>
           links[k] = IF k[3] = 1 THEN {<<"a", TOP, 1>>} ELSE {}
    /\ links[<<"out", TOP, 1>>] = {<<"ic", TOP, 14>>, <<"f", TOP, 1>>}

(* C30: pins 7 and 14 of a 14-pin IC are outputs that give Undefined:      *)
(* compute on them is Undefined in every state, and an output component    *)
(* whose only links are to such pins reads U after build and after every   *)
(* simulate.                                                               *)
C30_FloatingPinsUndefined ==
    LET Ics == {n \in DOMAIN types :
                   types[n] \in {"4001", "4011", "4030", "4069", "4071", "4081"}}
        Floating == {<<n, TOP, p>> : n \in Ics, p \in {7, 14}}
    IN  /\ \A e \in Floating :
               PinComputeForExternal(circuit, <<e[1], TOP>>, e[3]) = "Undefined"
        /\ phase = "built" =>
               \A n \in DOMAIN types :
                   (/\ types[n] = "output"
                    /\ links[<<n, TOP, 1>>] # {}
                    /\ links[<<n, TOP, 1>>] \subseteq Floating)
                       => GetOutput(circuit, n) = "U"

C30_Witness ==
    /\ phase = "built" /\ circuit.current_tick = 1
    /\ "ic" \in DOMAIN types /\ types["ic"] = "4069"
    /\ "out" \in DOMAIN types /\ types["out"] = "output"
    /\ links[<<"out", TOP, 1>>] = {<<"ic", TOP, 14>>}
    /\ GetInput(circuit, "a") = "1"
    /\ GetOutput(circuit, "out") = "U"

(* The two runs of the circuit. *)
BothRuns == {circuit, shadow}

(* C31: an input pin read by a peer gives LOW whatever its aggregate: an   *)
(* output component all of whose links go to the input pins of other       *)
(* output components reads 0 after build and after every simulate, also    *)
(* when the pin it reads has aggregated 1 or U; so do two outputs linked   *)
(* to each other.                                                          *)
C31_InputPinReadIsLow ==
    phase = "built" =>
        \A m \in BothRuns : \A n \in DOMAIN types :
            (/\ types[n] = "output"
             /\ links[<<n, TOP, 1>>] # {}
             /\ \A l \in links[<<n, TOP, 1>>] :
                    types[l[1]] = "output" /\ l[3] = 1)
                => GetOutput(m, n) = "0"

C31_Witness ==
    /\ phase = "built" /\ circuit.current_tick = 1
    /\ DOMAIN types = {"a", "out", "o2"}
    /\ links[<<"o2", TOP, 1>>] = {<<"out", TOP, 1>>}
    /\ GetInput(circuit, "a") = "1"
    /\ GetOutput(circuit, "out") = "1"
    /\ GetOutput(circuit, "o2") = "0"

(* C35: an input pin without link aggregates to LOW: an output component   *)
(* linked to nothing reads 0 after build and after every simulate, and an  *)
(* output linked to a gate of an IC whose pins are otherwise unconnected   *)
(* reads the operation of the gate on two LOW (NOR, NAND and NOT give 1,   *)
(* AND, OR and XOR give 0).                                                *)
C35_UnlinkedPinIsLow ==
    phase = "built" =>
        \A m \in BothRuns :
            /\ \A n \in DOMAIN types :
                   (types[n] = "output" /\ links[<<n, TOP, 1>>] = {})
                       => GetOutput(m, n) = "0"
            /\ (DOMAIN types = {"ic", "out"}) =>
                   /\ \A k \in DOMAIN m.input_value :
                          k[1] = "ic" /\ k[2] = TOP =>
                              m.input_value[k] = "State(false)"
                   /\ GetOutput(m, "out")
                          = IF types["ic"] \in {"4001", "4011", "4069"}
                            THEN "1" ELSE "0"

C35_Witness ==
    /\ phase = "built" /\ circuit.current_tick = 1
    /\ DOMAIN types = {"ic", "out"} /\ types["ic"] = "4011"
    /\ links[<<"ic", TOP, 1>>] = {} /\ links[<<"ic", TOP, 2>>] = {}
    /\ links[<<"out", TOP, 1>>] = {<<"ic", TOP, 3>>}
    /\ GetOutput(circuit, "out") = "1"

(* C36: the aggregate of an input pin is the same in whatever order its    *)
(* links are visited: OR is commutative and associative with LOW as its    *)
(* identity, the two runs of a circuit give every input pin the same       *)
(* aggregate, an output driven by three components reads 1 if one of them  *)
(* is 1, else U if one is U, else 0, and a link to an endpoint already     *)
(* linked leaves the link set and this value as they were.                 *)
C36_AggregateOrderFree ==
    LET LOW == "State(false)"
        V == {"State(false)", "State(true)", "Undefined"}
    IN  /\ \A x, y, z \in V :
               /\ BitOr(x, y) = BitOr(y, x)
               /\ BitOr(BitOr(x, y), z) = BitOr(x, BitOr(y, z))
               /\ BitOr(LOW, x) = x
        /\ phase = "built" =>
               /\ circuit.input_value = shadow.input_value
               /\ (DOMAIN types = {"a", "b", "cl", "out"}) =>
                      LET ins == {GetInput(circuit, n) : n \in {"a", "b", "cl"}}
                      IN  /\ links[<<"out", TOP, 1>>]
                                = {<<"a", TOP, 1>>, <<"b", TOP, 1>>, <<"cl", TOP, 1>>}
                          /\ \A m \in BothRuns :
                                 GetOutput(m, "out")
                                    = IF "1" \in ins THEN "1"
                                      ELSE IF "U" \in ins THEN "U" ELSE "0"

C36_Witness ==
    /\ phase = "built" /\ circuit.current_tick = 1
    /\ DOMAIN types = {"a", "b", "cl", "out"}
    /\ shadow.order.linksDesc /\ shadow.order.comps = <<"out", "cl", "b", "a">>
    /\ GetInput(circuit, "a") = "U" /\ GetInput(circuit, "b") = "1"
    /\ GetInput(circuit, "cl") = "0"
    /\ GetOutput(shadow, "out") = "1"

(* C32: once build or simulate has returned, no input pin, no pin of an    *)
(* output evaluator and no container is Computing, and the container of    *)
(* every component of the circuit is Available(current_tick); at no moment *)
(* does a pin or a container record a tick above current_tick.             *)
C32_NothingLeftComputing ==
    LET t == circuit.current_tick
    IN  /\ \A p \in DOMAIN circuit.input_state : circuit.input_state[p][2] <= t
        /\ \A c \in DOMAIN circuit.state : circuit.state[c][2] <= t
        /\ phase = "built" =>
               /\ \A p \in DOMAIN circuit.input_state :
                      circuit.input_state[p][1] # "Computing"
               /\ \A c \in DOMAIN circuit.state :
                      /\ circuit.state[c][1] # "Computing"
                      /\ c[2] = TOP => circuit.state[c] = <<"Available", t>>

C32_Witness ==
    /\ phase = "built" /\ circuit.current_tick = 1
    /\ "inv" \in DOMAIN types
    /\ circuit.reentered # {}
    /\ circuit.state[<<"inv", TOP>>] = <<"Available", 1>>

(* C37: set_value looks at the text before the name: with a text other     *)
(* than 0, 1, U the result is ValueParseError also when the name is        *)
(* unknown or names a component that is no input; with a valid text an     *)
(* unknown name gives UnknownName, and NotAnInput is only given for a      *)
(* registered name.                                                        *)
C37_ValueCheckedBeforeName ==
    [][\A n \in Names, t \in Texts :
          SetValue(n, t) =>
              LET BadText == t \notin {"0", "1", "U"}
                  NoInput == n \in DOMAIN types /\ types[n] \notin {"input", "clock"}
              IN  /\ (BadText /\ (n \notin DOMAIN types \/ NoInput))
                         => lastResult' = <<"ValueParseError", t>>
                  /\ (~BadText /\ n \notin DOMAIN types)
                         => lastResult' = <<"UnknownName", n>>
                  /\ lastResult'[1] = "NotAnInput" => (~BadText /\ NoInput)
                  /\ lastResult'[1] = "UnknownName" => ~BadText]_vars

C37_Witness ==
    /\ phase = "built" /\ circuit.current_tick = 1
    /\ lastResult = <<"UnknownName", "x">>
    /\ "x" \notin DOMAIN types /\ "out" \in DOMAIN types

(* C34: in the SR latch, when q and nq are defined and complementary, a   *)
(* simulate that reads s = 0 and r = 0 leaves q and nq as they were, at   *)
(* every tick and under every iteration order.                            *)
C34_LatchKeepsComplementaryState ==
    [][(/\ IsSimulateStep
        /\ DOMAIN types = {"s", "r", "ic", "q", "nq"}
        /\ GetOutput(circuit, "q") \in {"0", "1"}
        /\ GetOutput(circuit, "nq") \in {"0", "1"}
        /\ GetOutput(circuit, "q") # GetOutput(circuit, "nq")
        /\ GetInput(circuit', "s") = "0"
        /\ GetInput(circuit', "r") = "0")
          => /\ GetOutput(circuit', "q") = GetOutput(circuit, "q")
             /\ GetOutput(circuit', "nq") = GetOutput(circuit, "nq")]_vars

(* C34 witness: at the third simulate the latch holds q = 0 and nq = 1    *)
(* with both inputs at 0.                                                 *)
C34_Witness ==
    /\ phase = "built"
    /\ DOMAIN types = {"s", "r", "ic", "q", "nq"}
    /\ circuit.current_tick = 3
    /\ GetInput(circuit, "s") = "0"
    /\ GetInput(circuit, "r") = "0"
    /\ GetOutput(circuit, "q") = "0"
    /\ GetOutput(circuit, "nq") = "1"

(* The components whose input pins hold a link to a pin of component n. *)
ComponentsReading(n) ==
    {r \in DOMAIN types :
        \E k \in DOMAIN links : k[1] = r /\ k[2] = TOP /\ \E q \in links[k] : q[1] = n}

RECURSIVE ReachedFrom(_, _)
ReachedFrom(S, k) ==
    IF k = 0 THEN S ELSE ReachedFrom(S \cup UNION {ComponentsReading(n) : n \in S}, k - 1)

(* No component is linked to itself and no chain of links leads from a     *)
(* component back to it.                                                   *)
NoFeedback ==
    \A n \in DOMAIN types :
        n \notin ReachedFrom(ComponentsReading(n), Cardinality(DOMAIN types))

(* The combinational function of a circuit without feedback, on the texts  *)
(* get_input shows in m: the value at an input pin is the OR of 0 and of   *)
(* what drives it, the value at the output pin of a gate is the gate's     *)
(* operation on its input pins.                                            *)
RECURSIVE CombinationalOutput(_, _, _)
RECURSIVE CombinationalInput(_, _, _)
CombinationalOutput(m, name, pin) ==
    LET RefNot(x) == CASE x = "0" -> "1" [] x = "1" -> "0" [] OTHER -> "U"
        RefAnd(x, y) == IF "0" \in {x, y} THEN "0"
                        ELSE IF "U" \in {x, y} THEN "U" ELSE "1"
        RefOr(x, y) == IF "1" \in {x, y} THEN "1"
                       ELSE IF "U" \in {x, y} THEN "U" ELSE "0"
        RefXor(x, y) == IF "U" \in {x, y} THEN "U"
                        ELSE IF x = y THEN "0" ELSE "1"
        two == {<<1, 2, 3>>, <<5, 6, 4>>, <<8, 9, 10>>, <<12, 13, 11>>}
        one == {<<1, 2>>, <<3, 4>>, <<5, 6>>, <<9, 8>>, <<11, 10>>, <<13, 12>>}
        t == types[name]
    IN  CASE t \in {"input", "clock"} -> GetInput(m, name)
          [] t = "true" -> "1"
          [] t = "false" -> "0"
          [] t = "4069" /\ (\E g \in one : g[2] = pin) ->
                LET g == CHOOSE g \in one : g[2] = pin
                IN  RefNot(CombinationalInput(m, name, g[1]))
          [] t \in {"4001", "4011", "4030", "4071", "4081"}
                /\ (\E g \in two : g[3] = pin) ->
                LET g == CHOOSE g \in two : g[3] = pin
                    x == CombinationalInput(m, name, g[1])
                    y == CombinationalInput(m, name, g[2])
                IN  CASE t = "4001" -> RefNot(RefOr(x, y))
                      [] t = "4011" -> RefNot(RefAnd(x, y))
                      [] t = "4030" -> RefXor(x, y)
                      [] t = "4071" -> RefOr(x, y)
                      [] t = "4081" -> RefAnd(x, y)
          [] OTHER -> "0"
CombinationalInput(m, name, pin) ==
    LET driven == {CombinationalOutput(m, q[1], q[3]) : q \in links[<<name, TOP, pin>>]}
    IN  IF "1" \in driven THEN "1" ELSE IF "U" \in driven THEN "U" ELSE "0"

(* C33: in a circuit without feedback, after each simulate every output   *)
(* component shows the combinational function of the values the inputs    *)
(* and clocks show after that simulate and of the constants, with no      *)
(* delay of a tick, under every iteration order.                          *)
C33_NoFeedbackIsCombinational ==
    [][(IsSimulateStep /\ NoFeedback) =>
          \A o \in DOMAIN types :
              types[o] = "output" =>
                  GetOutput(circuit', o) = CombinationalInput(circuit', o, 1)]_vars

(* C33 witness: after the second simulate the output behind two ICs in a  *)
(* row shows the new value of the input.                                  *)
C33_Witness ==
    /\ phase = "built" /\ circuit.current_tick = 2
    /\ NoFeedback
    /\ circuit.order.comps = <<"out", "inv", "ic", "a">>
    /\ types["ic"] = "4001" /\ types["inv"] = "4069"
    /\ links[<<"inv", TOP, 1>>] = {<<"ic", TOP, 3>>}
    /\ GetInput(circuit, "a") = "1"
    /\ GetOutput(circuit, "out") = "1"

(* The instruction at position k of the parsed lines `ins` is one the      *)
(* builder refuses after the instructions before it: a type that is not a  *)
(* component type, a name already declared, a link to a name not declared  *)
(* or on a pin the declared type does not have.                            *)
BuildFault(ins, k) ==
    LET Declares(j, n) ==
            /\ ins[j].instruction.op = "AddComponent"
            /\ Spell(ins[j].instruction.name) = n
        Known(n) == \E j \in 1..(k - 1) : Declares(j, n)
        TypeOfName(n) ==
            LET first == CHOOSE j \in 1..(k - 1) :
                             Declares(j, n) /\ \A h \in 1..(j - 1) : ~Declares(h, n)
            IN  Spell(ins[first].instruction.component_type)
        BadEnd(n, pin) == ~Known(n) \/ SetLinkResult(TypeOfName(n), pin) # Ok
        i == ins[k].instruction
    IN  IF i.op = "AddComponent"
        THEN Spell(i.component_type) \notin ComponentType \/ Known(Spell(i.name))
        ELSE BadEnd(Spell(i.left_name), i.left_pin)
             \/ BadEnd(Spell(i.right_name), i.right_pin)

(* C38: Parser::read reports the syntax error of a text, with its line,    *)
(* whatever the builder would refuse on the lines before it; in a text     *)
(* without syntax error it reports the first instruction the builder       *)
(* refuses, as a Build error with the number of that instruction's line;   *)
(* and a text that declares no component gives NoChipset with line 0.      *)
C38_SyntaxErrorsFirst ==
    [][(phase = "parsing" /\ phase' # "parsing") =>
         LET parsed == ParseLines(input)
             ins == parsed[2]
             faults == {k \in DOMAIN ins : BuildFault(ins, k)}
             first == CHOOSE k \in faults : \A h \in faults : k <= h
         IN  /\ parsed[1] = "Err" =>
                    /\ phase' = "failed"
                    /\ lastResult' = <<"Syntax", parsed[2], parsed[3]>>
             /\ (parsed[1] = "Ok" /\ faults # {}) =>
                    /\ phase' = "failed"
                    /\ lastResult'[1] = "Build"
                    /\ lastResult'[2] = ins[first].index
                    /\ lastResult'[2] # 0
             /\ (parsed[1] = "Ok" /\ ins = <<>>) =>
                    /\ phase' = "failed"
                    /\ lastResult' = <<"Build", 0, <<"NoChipset">>>>
             /\ (parsed[1] = "Ok" /\ faults = {} /\ ins # <<>>) =>
                    phase' = "building"]_vars

(* C38 witness: an unknown type on line 2 and an undeclared name on line 4 *)
(* come before the chipset line under .links: on line 5, and the result is *)
(* the syntax error of line 5.                                             *)
C38_Witness ==
    /\ phase = "failed"
    /\ Len(input) = 5
    /\ input[2] = <<"n", "a", "n", "d", " ", "b">>
    /\ input[3] = LINK_DECLARATION
    /\ input[4] = <<"a", ":", "1", " ", "o", ":", "1">>
    /\ input[5] = <<"i", "n", "p", "u", "t", " ", "a">>
    /\ lastResult = <<"Syntax", 5, <<"InvalidLinkFormat">>>>
================================================================================
